---- MODULE Spec2Model ----
(***************************************************************************)
(* Model of the product duplication app:                                   *)
(*   - api/actions/bulkDuplicateProducts.ts  (Duplication Orchestrator)    *)
(*   - api/actions/prepareImageUploads.ts    (Upload Stager)               *)
(*   - web/routes/_app._index.tsx            (the caller of the Stager)    *)
(* Character-level strings are sequences of one-character strings; values  *)
(* that the code only copies or compares (URLs, prices, option names, ids  *)
(* handed out by the remote API) are atomic strings or integers.           *)
(***************************************************************************)
EXTENDS Integers, Sequences, FiniteSets, TLC

(* ------------------------------ bounds -------------------------------- *)

\* longest tail appended to an id prefix when enumerating sourceProductId
MaxIdTail == 2

\* longest duplicates list of a run
MaxDups == 3

\* longest list of file descriptors handed to prepareImageUploads
MaxFiles == 3

(* ------------------------- optional values ---------------------------- *)

\* a value that may be undefined / null in the JavaScript source: the empty
\* sequence when it is, a one-element sequence holding the value when not
None == <<>>

Some(x) == <<x>>

Has(o) == o # <<>>

Val(o) == o[1]

\* a ?? b
Coalesce(a, b) == IF Has(a) THEN a ELSE b

(* ------------------------------ strings ------------------------------- *)

Digits == {"0", "1", "2", "3", "4", "5", "6", "7", "8", "9"}

WhiteSpace == {" ", "\t"}

StartsWith(s, p) == Len(s) >= Len(p) /\ SubSeq(s, 1, Len(p)) = p

\* String.prototype.trim
RECURSIVE TrimLeft(_)
TrimLeft(s) == IF s # <<>> /\ Head(s) \in WhiteSpace THEN TrimLeft(Tail(s)) ELSE s

RECURSIVE TrimRight(_)
TrimRight(s) ==
    IF s # <<>> /\ s[Len(s)] \in WhiteSpace THEN TrimRight(SubSeq(s, 1, Len(s) - 1)) ELSE s

trim(s) == TrimRight(TrimLeft(s))

\* Array.prototype.join over a list of atomic messages
RECURSIVE Join(_, _)
Join(list, sep) ==
    IF list = <<>> THEN <<>>
    ELSE IF Len(list) = 1 THEN <<list[1]>>
    ELSE <<list[1], sep>> \o Join(Tail(list), sep)

GidPrefix == <<"g", "i", "d", ":", "/", "/">>

ProductPrefix ==
    GidPrefix \o <<"s", "h", "o", "p", "i", "f", "y", "/", "P", "r", "o", "d", "u", "c", "t", "/">>

OrderPrefix == GidPrefix \o <<"s", "h", "o", "p", "i", "f", "y", "/", "O", "r", "d", "e", "r", "/">>

AdminPathPrefix == <<"p", "r", "o", "d", "u", "c", "t", "s", "/">>

\* the positions k of id such that id[k] is "/" and everything after it is a
\* non-empty run of digits: where /^.*\/(\d+)$/ can match
SuffixSlashes(id) ==
    {k \in 1..(Len(id) - 1) :
        id[k] = "/" /\ \A j \in (k + 1)..Len(id) : id[j] \in Digits}

\* id.replace(/^.*\/(\d+)$/, "$1")
ReplacePathSuffix(id) ==
    IF SuffixSlashes(id) = {} THEN id
    ELSE LET k == CHOOSE k \in SuffixSlashes(id) : TRUE IN SubSeq(id, k + 1, Len(id))

\* a normalizeGid that prefixes every id, forgetting the startsWith("gid://") test
normalizeGidAlwaysPrefix(id) == ProductPrefix \o ReplacePathSuffix(id)

normalizeGid(id) ==
    IF StartsWith(id, GidPrefix) THEN id ELSE ProductPrefix \o ReplacePathSuffix(id)

\* /^gid:\/\/shopify\/Product\/.+/.test(s)
MatchesProductGid(s) == StartsWith(s, ProductPrefix) /\ Len(s) > Len(ProductPrefix)

\* gid://shopify/Product/<numeric>, the canonical identifier shape
IsCanonicalGid(s) ==
    /\ StartsWith(s, ProductPrefix)
    /\ Len(s) > Len(ProductPrefix)
    /\ \A j \in (Len(ProductPrefix) + 1)..Len(s) : s[j] \in Digits

(* ------------------- remote API: the data it serves ------------------- *)

\* messages of the userErrors the remote API reports
ErrorLists == {<<"Title is invalid">>, <<"Title is invalid", "Vendor is too long">>}

\* ids the remote API hands out to created products
ProductIdPool == 1..MaxDups

NoTags == [kind |-> "absent", arr |-> <<>>, str |-> <<>>]

TagArray(a) == [kind |-> "array", arr |-> a, str |-> <<>>]

TagString(s) == [kind |-> "string", arr |-> <<>>, str |-> s]

SourceTitle == <<"S", "r", "c">>

SourceTag == <<"s", "a", "l", "e">>

\* source product without options, variants or media
BasePlain ==
    [title |-> SourceTitle, descriptionHtml |-> Some(<<"d">>), vendor |-> Some(<<"v">>),
     productType |-> None, tags |-> Some(<<SourceTag>>),
     options |-> <<>>, variants |-> <<>>, media |-> <<>>]

\* source product with one option, two variants and four media nodes
BaseVariants ==
    [title |-> SourceTitle, descriptionHtml |-> None, vendor |-> Some(<<"v">>),
     productType |-> Some(<<"t">>), tags |-> Some(<<SourceTag, <<"n", "e", "w">> >>),
     options |-> <<[name |-> "Size", optionValues |-> <<"S", "M">>]>>,
     variants |->
        <<[price |-> Some("10.00"), selectedOptions |-> <<[name |-> "Size", value |-> "S"]>>],
          [price |-> Some("12.00"), selectedOptions |-> <<[name |-> "Size", value |-> "M"]>>]>>,
     media |->
        <<[mediaContentType |-> "IMAGE", image |-> Some("img1"), preview |-> Some("prev1")],
          [mediaContentType |-> "IMAGE", image |-> None, preview |-> Some("prev2")],
          [mediaContentType |-> "VIDEO", image |-> None, preview |-> Some("prev3")],
          [mediaContentType |-> "IMAGE", image |-> None, preview |-> None]>>]

\* source product whose variant selects an option the product does not list
BaseOddOption ==
    [title |-> SourceTitle, descriptionHtml |-> Some(<<"d">>), vendor |-> None,
     productType |-> None, tags |-> None,
     options |-> <<[name |-> "Size", optionValues |-> <<"S">>]>>,
     variants |->
        <<[price |-> None,
           selectedOptions |-> <<[name |-> "Size", value |-> "S"],
                                 [name |-> "Color", value |-> "Red"]>>]>>,
     media |-> <<[mediaContentType |-> "IMAGE", image |-> Some("img1"), preview |-> None]>>]

BaseProducts == {BasePlain, BaseVariants, BaseOddOption}

(* ----------------------------- run inputs ----------------------------- *)

NoOverrides ==
    [title |-> None, imageUrls |-> None, descriptionHtml |-> None, vendor |-> None,
     tags |-> NoTags, productType |-> None, price |-> None]

\* strings over alphabet of length at most n
RECURSIVE StringsUpTo(_, _)
StringsUpTo(alphabet, n) ==
    IF n = 0 THEN {<<>>}
    ELSE LET shorter == StringsUpTo(alphabet, n - 1)
         IN shorter \cup {Append(s, c) : s \in shorter, c \in alphabet}

\* longest override string (title, tag text) enumerated character by character
MaxStrLen == 2

CanonicalId == ProductPrefix \o <<"1", "2">>

\* every sourceProductId tried: a prefix followed by a short tail
IdInputs ==
    {pre \o tl :
        pre \in {<<>>, GidPrefix, ProductPrefix, OrderPrefix, AdminPathPrefix},
        tl \in StringsUpTo({"1", "2", "a", "/"}, MaxIdTail)}

TitleInputs == {None} \cup {Some(s) : s \in StringsUpTo({" ", "a"}, MaxStrLen)}

TagInputs ==
    {NoTags, TagArray(<<>>), TagArray(<<SourceTag>>), TagArray(<<<<"x">>, SourceTag>>),
     TagArray(<<<<"x">>, <<"y">>>>), TagArray(<<<<" ", "x">>, <<>>>>)}
    \cup {TagString(s) : s \in StringsUpTo({",", " ", "x"}, MaxStrLen)}

\* the override sets tried one at a time, each varying a few fields
DupSpecs ==
    {[NoOverrides EXCEPT !.title = t] : t \in TitleInputs}
    \cup {[NoOverrides EXCEPT !.tags = g] : g \in TagInputs}
    \cup {[NoOverrides EXCEPT !.price = pr] : pr \in {Some(""), Some("9.99")}}
    \cup {[NoOverrides EXCEPT !.imageUrls = u] :
            u \in {Some(<<>>), Some(<<"own1">>), Some(<<"own2", "own1">>)}}
    \cup {[NoOverrides EXCEPT !.descriptionHtml = Some(d), !.vendor = Some(d),
                              !.productType = Some(d)] :
            d \in {<<>>, <<" ">>, <<"x">>, <<" ", "x">>}}

\* three override sets mixed in the longer lists
MixSpecs ==
    <<NoOverrides,
      [NoOverrides EXCEPT !.title = Some(<<" ", "a">>), !.tags = TagArray(<<<<"x">>>>),
                          !.price = Some("9.99")],
      [NoOverrides EXCEPT !.title = Some(<<" ">>), !.tags = TagArray(<<>>),
                          !.imageUrls = Some(<<"own1">>)]>>

\* the list of length n that starts at the j-th mixed override set
MixList(n, j) == [i \in 1..n |-> MixSpecs[((i + j) % Len(MixSpecs)) + 1]]

ArrayOf(items) == [isArray |-> TRUE, items |-> items]

NotAnArray == [isArray |-> FALSE, items |-> <<>>]

\* one image URL more than a productCreate request may carry
ManyUrls == [k \in 1..51 |-> ToString(k)]

\* the calls of bulkDuplicateProducts tried
RunInputs ==
    \* identifiers of every shape, one plain duplicate
    {[sourceProductId |-> id, duplicates |-> ArrayOf(<<NoOverrides>>), connected |-> TRUE] :
        id \in {None} \cup {Some(x) : x \in IdInputs}}
    \* malformed calls
    \cup {[sourceProductId |-> id, duplicates |-> d, connected |-> c] :
            id \in {None, Some(<<>>), Some(CanonicalId), Some(<<"a", "b", "c">>)},
            d \in {NotAnArray, ArrayOf(<<>>), ArrayOf(<<NoOverrides>>)},
            c \in BOOLEAN}
    \* one duplicate, every override set
    \cup {[sourceProductId |-> Some(CanonicalId), duplicates |-> ArrayOf(<<d>>),
           connected |-> TRUE] : d \in DupSpecs}
    \* longer lists
    \cup {[sourceProductId |-> Some(<<"1", "2">>), duplicates |-> ArrayOf(MixList(n, j)),
           connected |-> TRUE] : n \in 2..MaxDups, j \in 1..Len(MixSpecs)}
    \* an empty image list, then one longer than a request may carry
    \cup {[sourceProductId |-> Some(CanonicalId),
           duplicates |-> ArrayOf(<<[NoOverrides EXCEPT !.imageUrls = Some(<<>>)],
                                    [NoOverrides EXCEPT !.imageUrls = Some(ManyUrls)]>>),
           connected |-> TRUE]}

(* --------------- bulkDuplicateProducts: pure computations ------------- *)

\* at most this many media entries go into one productCreate request
MediaCap == 50

\* JavaScript truthiness of an optional string
Truthy(o) == Has(o) /\ Val(o) # ""

\* a derivation that prefers the preview image
RECURSIVE BaseImageUrlsPreviewFirst(_)
BaseImageUrlsPreviewFirst(nodes) ==
    IF nodes = <<>> THEN <<>>
    ELSE LET node == Head(nodes)
             url == IF Truthy(node.preview) THEN node.preview ELSE node.image
         IN (IF node.mediaContentType = "IMAGE" /\ Truthy(url) THEN <<Val(url)>> ELSE <<>>)
            \o BaseImageUrlsPreviewFirst(Tail(nodes))

\* the loop filling baseImageUrls from base.media.nodes
RECURSIVE BaseImageUrls(_)
BaseImageUrls(nodes) ==
    IF nodes = <<>> THEN <<>>
    ELSE LET node == Head(nodes)
             url == IF Truthy(node.image) THEN node.image ELSE node.preview
         IN (IF node.mediaContentType = "IMAGE" /\ Truthy(url) THEN <<Val(url)>> ELSE <<>>)
            \o BaseImageUrls(Tail(nodes))

\* a media choice that takes the duplicate's list whenever it is an array
MediaUrlsArrayWins(dup, baseUrls) ==
    IF Has(dup.imageUrls) THEN Val(dup.imageUrls) ELSE baseUrls

\* line 155: the duplicate's own image URLs if any, else the source's
MediaUrls(dup, baseUrls) ==
    IF Has(dup.imageUrls) /\ Len(Val(dup.imageUrls)) > 0 THEN Val(dup.imageUrls) ELSE baseUrls

\* (mediaUrls ?? []).slice(0, 50), undefined when empty
MediaInput(urls) ==
    LET capped == SubSeq(urls, 1, IF Len(urls) < MediaCap THEN Len(urls) ELSE MediaCap)
    IN IF Len(capped) > 0 THEN Some(capped) ELSE None

\* String.prototype.split(",")
RECURSIVE SplitComma(_, _)
SplitComma(s, cur) ==
    IF s = <<>> THEN <<cur>>
    ELSE IF Head(s) = "," THEN <<cur>> \o SplitComma(Tail(s), <<>>)
    ELSE SplitComma(Tail(s), Append(cur, Head(s)))

\* .map(t => t.trim()).filter(Boolean)
RECURSIVE TrimAndDropEmpty(_)
TrimAndDropEmpty(list) ==
    IF list = <<>> THEN <<>>
    ELSE (IF trim(Head(list)) # <<>> THEN <<trim(Head(list))>> ELSE <<>>)
         \o TrimAndDropEmpty(Tail(list))

\* a title choice that keeps a blank override instead of the source title
TitleInputNoFallback(dup, base) == IF Has(dup.title) THEN trim(Val(dup.title)) ELSE base.title

TitleInput(dup, base) ==
    IF Has(dup.title) /\ Val(dup.title) # <<>> /\ Len(trim(Val(dup.title))) > 0
    THEN trim(Val(dup.title))
    ELSE base.title

\* a tag choice that merges the duplicate's tags into the source's
TagsInputMerged(dup, base) ==
    IF dup.tags.kind = "array" THEN Val(Coalesce(base.tags, Some(<<>>))) \o dup.tags.arr
    ELSE IF dup.tags.kind = "string" THEN TrimAndDropEmpty(SplitComma(dup.tags.str, <<>>))
    ELSE Val(Coalesce(base.tags, Some(<<>>)))

TagsInput(dup, base) ==
    IF dup.tags.kind = "array" THEN dup.tags.arr
    ELSE IF dup.tags.kind = "string" THEN TrimAndDropEmpty(SplitComma(dup.tags.str, <<>>))
    ELSE Val(Coalesce(base.tags, Some(<<>>)))

\* the ProductCreateInput built for one duplicate
ProductInput(dup, base) ==
    [title |-> TitleInput(dup, base),
     descriptionHtml |-> Coalesce(dup.descriptionHtml, base.descriptionHtml),
     vendor |-> Coalesce(dup.vendor, base.vendor),
     productType |-> Coalesce(dup.productType, base.productType),
     tags |-> TagsInput(dup, base),
     productOptions |->
        [k \in 1..Len(base.options) |->
            [name |-> base.options[k].name, values |-> base.options[k].optionValues]]]

\* a lookup that pairs every value with the first created option
OptionIdFirst(options, name) ==
    IF options = <<>> THEN None ELSE Some(options[1].id)

\* optionIdByName.get(name): the id of the last created option of that name
OptionIdByName(options, name) ==
    LET hits == {k \in 1..Len(options) : options[k].name = name}
    IN IF hits = {} THEN None
       ELSE Some(options[CHOOSE k \in hits : \A h \in hits : h <= k].id)

\* the variants sent to productVariantsBulkCreate
VariantsInput(baseVariants, createdOptions) ==
    [j \in 1..Len(baseVariants) |->
        [price |-> baseVariants[j].price,
         optionValues |->
            [m \in 1..Len(baseVariants[j].selectedOptions) |->
                [name |-> baseVariants[j].selectedOptions[m].value,
                 optionId |->
                    OptionIdByName(createdOptions, baseVariants[j].selectedOptions[m].name)]]]]

(* ------------------------------- state -------------------------------- *)

VARIABLES
    params,         \* bulkDuplicateProducts: the call's sourceProductId and duplicates
    connected,      \* whether connections.shopify.current exists
    pc,             \* where the run stands: at which await, returned or thrown
    sourceGid,      \* the normalized source id
    base,           \* the fetched source product (None before the fetch)
    baseImageUrls,  \* image URLs derived from the source media
    idx,            \* 0-based index of the duplicate being processed
    created,        \* the product returned by the current productCreate
    newProductIds,  \* the result accumulator
    calls,          \* every request sent to the remote API, in order
    lastResp,       \* the response the run has just received
    returnedIds,    \* history: the id productCreate returned, per duplicate
    delays,         \* number of delay(250) steps completed
    waitedMs,       \* milliseconds spent in delay(250) so far
    answered,       \* history: number of responses the run has received
    result,         \* the value returned by the run (None while running)
    error           \* the error thrown by the run (None while running)

runVars ==
    <<params, connected, pc, sourceGid, base, baseImageUrls, idx, created, newProductIds,
      calls, lastResp, returnedIds, delays, waitedMs, answered, result, error>>

VARIABLES
    files,          \* prepareImageUploads: the call's files parameter
    stagerConn,     \* whether connections.shopify.current exists for the call
    stagerPc,       \* where the Stager run stands
    stagerCalls,    \* every request the Stager sent to the remote API
    stagerResp,     \* the stagedUploadsCreate response received
    targets,        \* the value returned by the Stager ({ targets })
    stagerError,    \* the error thrown by the Stager
    uploadPc,       \* uploadImagesIfNeeded, the caller: waiting, uploading or failed
    uploadError     \* the error thrown by uploadImagesIfNeeded

stagerVars ==
    <<files, stagerConn, stagerPc, stagerCalls, stagerResp, targets, stagerError,
      uploadPc, uploadError>>

VARIABLES
    quantity,        \* DuplicatePage: the text of the quantity field
    rows,            \* the duplicate rows
    selectedProduct, \* the picked product (None before a pick)
    fields,          \* the names of the fields selected for customization
    isSubmitting,    \* the submit button's busy flag
    clientPc,        \* onSubmit: idle, or the await the attempt stands at
    allFiles,        \* uploadImagesIfNeeded: the files collected for upload
    prepReq,         \* the files sent to prepareImageUploads (None: not called)
    clientTargets,   \* the targets prepareImageUploads answered
    uploadsSent,     \* indexes into allFiles whose upload request was sent
    pending,         \* indexes into allFiles whose upload has not completed
    perRowUrls,      \* staged resource URLs collected so far, per row
    stagedByRow,     \* onSubmit: what uploadImagesIfNeeded returned
    payload,         \* the parameters sent to bulkDuplicateProducts
    session          \* what the user does with the page: sizing it or arranging images

clientVars ==
    <<quantity, rows, selectedProduct, fields, isSubmitting, clientPc, allFiles, prepReq,
      clientTargets, uploadsSent, pending, perRowUrls, stagedByRow, payload, session>>

vars == <<runVars, stagerVars, clientVars>>

NoResp == [kind |-> "none"]

Err(message, index, detail) == [message |-> message, index |-> index, detail |-> detail]

Call(op, dup, req) == [op |-> op, dup |-> dup, req |-> req]

Duplicates == params.duplicates.items

\* the run ends by throw
Throw(e) ==
    /\ pc' = "thrown"
    /\ error' = Some(e)
    /\ result' = None

\* the productCreate request for the duplicate at 0-based index i
CreateCall(i, b, urls) ==
    Call("productCreate", i + 1,
         [product |-> ProductInput(Duplicates[i + 1], b),
          media |-> MediaInput(MediaUrls(Duplicates[i + 1], urls))])

InitRun ==
    /\ \E in \in RunInputs :
        /\ params = [sourceProductId |-> in.sourceProductId, duplicates |-> in.duplicates]
        /\ connected = in.connected
    /\ pc = "start"
    /\ sourceGid = None
    /\ base = None
    /\ baseImageUrls = <<>>
    /\ idx = 0
    /\ created = None
    /\ newProductIds = <<>>
    /\ calls = <<>>
    /\ lastResp = NoResp
    /\ returnedIds = <<>>
    /\ delays = 0
    /\ waitedMs = 0
    /\ answered = 0
    /\ result = None
    /\ error = None

(* -------------------- bulkDuplicateProducts: run ---------------------- *)

\* lines 111-130: validation, then the source product query is sent
Start ==
    /\ UNCHANGED <<stagerVars, clientVars>>
    /\ pc = "start"
    /\ UNCHANGED <<params, connected, base, baseImageUrls, idx, created, newProductIds,
                   lastResp, returnedIds, delays, waitedMs, answered>>
    /\ IF ~Has(params.sourceProductId) \/ Val(params.sourceProductId) = <<>>
       THEN /\ Throw(Err("sourceProductId is required", 0, <<>>))
            /\ UNCHANGED <<sourceGid, calls>>
       ELSE LET gid == normalizeGid(Val(params.sourceProductId)) IN
            /\ sourceGid' = Some(gid)
            /\ IF ~MatchesProductGid(gid)
               THEN /\ Throw(Err("sourceProductId must be a valid Shopify Product Global ID",
                                 0, <<>>))
                    /\ UNCHANGED calls
               ELSE IF ~params.duplicates.isArray \/ Len(params.duplicates.items) = 0
               THEN /\ Throw(Err("duplicates must be a non-empty array", 0, <<>>))
                    /\ UNCHANGED calls
               ELSE IF ~connected
               THEN /\ Throw(Err("No active Shopify connection for this session", 0, <<>>))
                    /\ UNCHANGED calls
               ELSE /\ calls' = Append(calls, Call("product", 0, [id |-> gid]))
                    /\ pc' = "awaitFetch"
                    /\ UNCHANGED <<result, error>>

\* an iteration that queries the source product again before creating
IterationCallsRefetch(i, b, urls) ==
    <<Call("product", 0, [id |-> Val(sourceGid)]), CreateCall(i, b, urls)>>

\* lines 153-198: the requests sent at the top of one loop iteration
IterationCalls(i, b, urls) == <<CreateCall(i, b, urls)>>

\* lines 130-198: the query returns; on a product, derive the image URLs and
\* send the first productCreate
FetchReturn ==
    /\ UNCHANGED <<stagerVars, clientVars>>
    /\ pc = "awaitFetch"
    /\ \E resp \in {None} \cup {Some(b) : b \in BaseProducts} :
        /\ lastResp' = [kind |-> "product", product |-> resp]
        /\ answered' = answered + 1
        /\ UNCHANGED <<params, connected, sourceGid, idx, created, newProductIds,
                       returnedIds, delays, waitedMs>>
        /\ IF ~Has(resp)
           THEN /\ Throw(Err("Base product not found", 0, <<>>))
                /\ UNCHANGED <<base, baseImageUrls, calls>>
           ELSE /\ base' = resp
                /\ baseImageUrls' = BaseImageUrls(Val(resp).media)
                /\ calls' = calls \o IterationCalls(0, Val(resp), BaseImageUrls(Val(resp).media))
                /\ pc' = "awaitCreate"
                /\ UNCHANGED <<result, error>>

\* the products a productCreate can answer with: an unused id, the requested
\* options with fresh ids, and the standalone variant (variants(first: 1))
CreatedProducts(req) ==
    UNION {
        {[id |-> id,
          options |-> [k \in 1..Len(req.product.productOptions) |->
                          [id |-> id * 10 + k, name |-> req.product.productOptions[k].name]],
          variants |-> vs] : vs \in {<<>>, <<id * 100>>}} :
        id \in ProductIdPool \ {returnedIds[k].id : k \in 1..Len(returnedIds)}}

CreateResponses(req) ==
    {[kind |-> "productCreate", userErrors |-> e, product |-> None] : e \in ErrorLists}
    \cup {[kind |-> "productCreate", userErrors |-> <<>>, product |-> None]}
    \cup {[kind |-> "productCreate", userErrors |-> <<>>, product |-> Some(c)] :
            c \in CreatedProducts(req)}

\* a price override written to the variant after the first one as well
PriceUpdateCallTwoVariants(i, productId, variantId) ==
    Call("productVariantsBulkUpdate", i + 1,
         [productId |-> productId,
          variants |-> <<[id |-> variantId, price |-> Val(Duplicates[i + 1].price)],
                         [id |-> variantId + 1, price |-> Val(Duplicates[i + 1].price)]>>])

\* lines 244-248 and 262-266: the price override for one variant
PriceUpdateCall(i, productId, variantId) ==
    Call("productVariantsBulkUpdate", i + 1,
         [productId |-> productId,
          variants |-> <<[id |-> variantId, price |-> Val(Duplicates[i + 1].price)]>>])

\* an error that names the 0-based loop index
CreateErrorZeroBased(i, errs) == Err("Failed to create duplicate #", i, Join(errs, "; "))

\* line 202: the error thrown when productCreate reports user errors
CreateError(i, errs) == Err("Failed to create duplicate #", i + 1, Join(errs, "; "))

\* an accumulator that puts the newest id first
PushIdFront(ids, id) == <<id>> \o ids

\* line 208: newProductIds.push(newProductId)
PushId(ids, id) == Append(ids, id)

\* a test that takes any price string, the empty one included, as an override
StandaloneOverrideAnyPrice(dup, c) == Has(dup.price) /\ Len(c.variants) > 0

\* line 260: dup.price && created?.variants?.nodes?.[0]?.id
StandaloneOverride(dup, c) == Truthy(dup.price) /\ Len(c.variants) > 0

\* lines 199-274: productCreate returns; abort on user errors, else record the
\* id and send the variant replication or the standalone price override
CreateReturn ==
    /\ UNCHANGED <<stagerVars, clientVars>>
    /\ pc = "awaitCreate"
    /\ \E resp \in CreateResponses(calls[Len(calls)].req) :
        /\ lastResp' = resp
        /\ answered' = answered + 1
        /\ UNCHANGED <<params, connected, sourceGid, base, baseImageUrls, idx, delays, waitedMs>>
        /\ IF Len(resp.userErrors) > 0
           THEN /\ Throw(CreateError(idx, resp.userErrors))
                /\ UNCHANGED <<created, newProductIds, returnedIds, calls>>
           ELSE IF ~Has(resp.product)
           THEN /\ Throw(Err("productCreate returned no product id", 0, <<>>))
                /\ UNCHANGED <<created, newProductIds, returnedIds, calls>>
           ELSE LET c == Val(resp.product)
                    dup == Duplicates[idx + 1]
                IN
                /\ created' = resp.product
                /\ newProductIds' = PushId(newProductIds, c.id)
                /\ returnedIds' = Append(returnedIds, [dup |-> calls[Len(calls)].dup, id |-> c.id])
                /\ UNCHANGED <<result, error>>
                /\ IF Len(Val(base).variants) > 0
                   THEN /\ calls' = Append(calls,
                              Call("productVariantsBulkCreate", idx + 1,
                                   [productId |-> c.id,
                                    variants |-> VariantsInput(Val(base).variants, c.options),
                                    strategy |-> "REMOVE_STANDALONE_VARIANT"]))
                        /\ pc' = "awaitBulkCreate"
                   ELSE IF StandaloneOverride(dup, c)
                   THEN /\ calls' = Append(calls, PriceUpdateCall(idx, c.id, c.variants[1]))
                        /\ pc' = "awaitBulkUpdate"
                   ELSE /\ calls' = calls
                        /\ pc' = "awaitDelay"

\* what productVariantsBulkCreate can answer: user errors or none, with or
\* without created variants
BulkCreateResponses(req) ==
    {[kind |-> "productVariantsBulkCreate", userErrors |-> e, productVariants |-> vs] :
        e \in ErrorLists \cup {<<>>},
        vs \in {<<>>, [j \in 1..Len(req.variants) |-> req.productId * 100 + j]}}

\* a test that goes on to the price update although user errors came back
FirstVariantOverrideDespiteErrors(dup, resp) ==
    Truthy(dup.price) /\ Len(resp.productVariants) > 0

\* lines 235-243: no user errors, dup.price set and createdVariants[0]?.id present
FirstVariantOverride(dup, resp) ==
    /\ Len(resp.userErrors) = 0
    /\ Truthy(dup.price)
    /\ Len(resp.productVariants) > 0

\* lines 234-257: productVariantsBulkCreate returns; errors are only logged,
\* a price override goes to the first created variant
BulkCreateReturn ==
    /\ UNCHANGED <<stagerVars, clientVars>>
    /\ pc = "awaitBulkCreate"
    /\ \E resp \in BulkCreateResponses(calls[Len(calls)].req) :
        /\ lastResp' = resp
        /\ answered' = answered + 1
        /\ UNCHANGED <<params, connected, sourceGid, base, baseImageUrls, idx, created,
                       newProductIds, returnedIds, delays, waitedMs, result, error>>
        /\ IF FirstVariantOverride(Duplicates[idx + 1], resp)
           THEN /\ calls' = Append(calls,
                      PriceUpdateCall(idx, Val(created).id, resp.productVariants[1]))
                /\ pc' = "awaitBulkUpdate"
           ELSE /\ calls' = calls
                /\ pc' = "awaitDelay"

\* a price update whose user errors abort the run
BulkUpdateReturnThrows ==
    /\ UNCHANGED <<stagerVars, clientVars>>
    /\ pc = "awaitBulkUpdate"
    /\ \E e \in ErrorLists \cup {<<>>} :
        /\ lastResp' = [kind |-> "productVariantsBulkUpdate", userErrors |-> e]
        /\ IF Len(e) > 0
           THEN Throw(Err("productVariantsBulkUpdate failed", idx + 1, Join(e, "; ")))
           ELSE pc' = "awaitDelay" /\ UNCHANGED <<result, error>>
    /\ answered' = answered + 1
    /\ UNCHANGED <<params, connected, sourceGid, base, baseImageUrls, idx, created,
                   newProductIds, calls, returnedIds, delays, waitedMs>>

\* lines 249-254 and 267-272: productVariantsBulkUpdate returns; errors are
\* only logged
BulkUpdateReturn ==
    /\ UNCHANGED <<stagerVars, clientVars>>
    /\ pc = "awaitBulkUpdate"
    /\ \E e \in ErrorLists \cup {<<>>} :
        lastResp' = [kind |-> "productVariantsBulkUpdate", userErrors |-> e]
    /\ answered' = answered + 1
    /\ pc' = "awaitDelay"
    /\ UNCHANGED <<params, connected, sourceGid, base, baseImageUrls, idx, created,
                   newProductIds, calls, returnedIds, delays, waitedMs, result, error>>

\* line 277: await delay(250), the argument of every delay of the loop
ThrottleMs == 250

\* a delay that never ends after the last duplicate
DelayElapsedStalls ==
    /\ UNCHANGED <<stagerVars, clientVars>>
    /\ pc = "awaitDelay"
    /\ UNCHANGED <<params, connected, sourceGid, base, baseImageUrls, created,
                   newProductIds, lastResp, returnedIds, answered, error, result>>
    /\ IF idx + 1 < Len(Duplicates)
       THEN /\ idx' = idx + 1
            /\ delays' = delays + 1
            /\ waitedMs' = waitedMs + ThrottleMs
            /\ calls' = calls \o IterationCalls(idx + 1, Val(base), baseImageUrls)
            /\ pc' = "awaitCreate"
       ELSE UNCHANGED <<idx, delays, waitedMs, calls, pc>>

\* a delay after which the next two duplicates are started together
DelayElapsedTwoAhead ==
    /\ UNCHANGED <<stagerVars, clientVars>>
    /\ pc = "awaitDelay"
    /\ delays' = delays + 1
    /\ waitedMs' = waitedMs + ThrottleMs
    /\ UNCHANGED <<params, connected, sourceGid, base, baseImageUrls, created,
                   newProductIds, lastResp, returnedIds, answered, error>>
    /\ IF idx + 1 < Len(Duplicates)
       THEN /\ idx' = idx + 1
            /\ calls' = calls \o IterationCalls(idx + 1, Val(base), baseImageUrls)
                              \o (IF idx + 2 < Len(Duplicates)
                                  THEN IterationCalls(idx + 2, Val(base), baseImageUrls)
                                  ELSE <<>>)
            /\ pc' = "awaitCreate"
            /\ UNCHANGED result
       ELSE /\ idx' = idx
            /\ calls' = calls
            /\ pc' = "returned"
            /\ result' = Some([productIds |-> newProductIds, count |-> Len(newProductIds)])

\* a delay that grows with the position of the duplicate
DelayElapsedBackoff ==
    /\ UNCHANGED <<stagerVars, clientVars>>
    /\ pc = "awaitDelay"
    /\ delays' = delays + 1
    /\ waitedMs' = waitedMs + ThrottleMs * (idx + 1)
    /\ UNCHANGED <<params, connected, sourceGid, base, baseImageUrls, created,
                   newProductIds, lastResp, returnedIds, answered, error>>
    /\ IF idx + 1 < Len(Duplicates)
       THEN /\ idx' = idx + 1
            /\ calls' = calls \o IterationCalls(idx + 1, Val(base), baseImageUrls)
            /\ pc' = "awaitCreate"
            /\ UNCHANGED result
       ELSE /\ idx' = idx
            /\ calls' = calls
            /\ pc' = "returned"
            /\ result' = Some([productIds |-> newProductIds, count |-> Len(newProductIds)])

\* lines 277-285 and 153-198: the delay elapses; the next duplicate's
\* productCreate is sent, or the run returns
DelayElapsed ==
    /\ UNCHANGED <<stagerVars, clientVars>>
    /\ pc = "awaitDelay"
    /\ delays' = delays + 1
    /\ waitedMs' = waitedMs + ThrottleMs
    /\ UNCHANGED <<params, connected, sourceGid, base, baseImageUrls, created,
                   newProductIds, lastResp, returnedIds, answered, error>>
    /\ IF idx + 1 < Len(Duplicates)
       THEN /\ idx' = idx + 1
            /\ calls' = calls \o IterationCalls(idx + 1, Val(base), baseImageUrls)
            /\ pc' = "awaitCreate"
            /\ UNCHANGED result
       ELSE /\ idx' = idx
            /\ calls' = calls
            /\ pc' = "returned"
            /\ result' = Some([productIds |-> newProductIds, count |-> Len(newProductIds)])

(* ------------------------- prepareImageUploads ------------------------ *)

FileCatalogue ==
    {[filename |-> "a.png", mimeType |-> "image/png", size |-> Some(10), httpMethod |-> None],
     [filename |-> "b.jpg", mimeType |-> "image/jpeg", size |-> None, httpMethod |-> Some("PUT")],
     [filename |-> "c.png", mimeType |-> "image/png", size |-> Some(7), httpMethod |-> Some("POST")]}

\* sequences over set of length 1..n
RECURSIVE ListsUpTo(_, _)
ListsUpTo(set, n) ==
    IF n = 0 THEN {}
    ELSE LET shorter == ListsUpTo(set, n - 1) \cup {<<>>}
         IN {Append(l, x) : l \in shorter, x \in set}

StagerInputs ==
    {[files |-> f, connected |-> c] :
        f \in {NotAnArray, ArrayOf(<<>>)} \cup {ArrayOf(l) : l \in ListsUpTo(FileCatalogue, MaxFiles)},
        c \in BOOLEAN}

\* lines 53-59: the StagedUploadInput list
StagedUploadInput(fs) ==
    [k \in 1..Len(fs) |->
        [filename |-> fs[k].filename,
         mimeType |-> fs[k].mimeType,
         httpMethod |-> Val(Coalesce(fs[k].httpMethod, Some("POST"))),
         resource |-> "IMAGE",
         fileSize |-> IF Has(fs[k].size) THEN Some(ToString(Val(fs[k].size))) ELSE None]]

\* the staged target the remote API issues for one input
TargetFor(in) ==
    [url |-> <<"upload", in.filename>>,
     resourceUrl |-> <<"resource", in.filename>>,
     parameters |-> <<[name |-> "key", value |-> in.filename]>>]

\* a target the remote API returns beyond those requested
StrayTarget ==
    [url |-> <<"upload", "stray">>, resourceUrl |-> <<"resource", "stray">>,
     parameters |-> <<>>]

\* what stagedUploadsCreate can answer: user errors, or targets in input
\* order, possibly fewer or more than requested
StagedResponses(input) ==
    LET all == [k \in 1..Len(input) |-> TargetFor(input[k])] IN
    {[userErrors |-> e, stagedTargets |-> <<>>] : e \in ErrorLists}
    \cup {[userErrors |-> <<>>, stagedTargets |-> t] :
            t \in {all, SubSeq(all, 1, Len(all) - 1), Append(all, StrayTarget)}}

InitStager ==
    /\ \E in \in StagerInputs :
        /\ files = in.files
        /\ stagerConn = in.connected
    /\ stagerPc = "start"
    /\ stagerCalls = <<>>
    /\ stagerResp = NoResp
    /\ targets = None
    /\ stagerError = None
    /\ uploadPc = "awaitPrepare"
    /\ uploadError = None

\* a validation that lets an empty list through
FilesInvalidEmptyAllowed(f) == ~f.isArray

\* line 46: !p?.files || !Array.isArray(p.files) || p.files.length === 0
FilesInvalid(f) == ~f.isArray \/ Len(f.items) = 0

\* lines 46-62: validation, then stagedUploadsCreate is sent
StagerStart ==
    /\ UNCHANGED <<runVars, clientVars>>
    /\ stagerPc = "start"
    /\ UNCHANGED <<files, stagerConn, stagerResp, targets, uploadPc, uploadError>>
    /\ IF FilesInvalid(files)
       THEN /\ stagerPc' = "thrown"
            /\ stagerError' = Some(Err("files must be a non-empty array", 0, <<>>))
            /\ UNCHANGED stagerCalls
       ELSE IF ~stagerConn
       THEN /\ stagerPc' = "thrown"
            /\ stagerError' = Some(Err("No active Shopify connection for this session", 0, <<>>))
            /\ UNCHANGED stagerCalls
       ELSE /\ stagerCalls' = Append(stagerCalls,
                   Call("stagedUploadsCreate", 0, [input |-> StagedUploadInput(files.items)]))
            /\ stagerPc' = "awaitStaged"
            /\ UNCHANGED stagerError

\* a Stager that reports only the first user error
StagerResultFirstError(resp, requested) ==
    IF Len(resp.userErrors) > 0
    THEN [thrown |-> TRUE, error |-> Err("", 0, <<resp.userErrors[1]>>), targets |-> <<>>]
    ELSE [thrown |-> FALSE, error |-> Err("", 0, <<>>), targets |-> resp.stagedTargets]

\* lines 63-71: what the run does with the response: throw the joined user
\* errors, else return the staged targets as received
StagerResult(resp, requested) ==
    IF Len(resp.userErrors) > 0
    THEN [thrown |-> TRUE, error |-> Err("", 0, Join(resp.userErrors, "; ")), targets |-> <<>>]
    ELSE [thrown |-> FALSE, error |-> Err("", 0, <<>>), targets |-> resp.stagedTargets]

\* lines 62-71: stagedUploadsCreate returns
StagerReturn ==
    /\ UNCHANGED <<runVars, clientVars>>
    /\ stagerPc = "awaitStaged"
    /\ \E resp \in StagedResponses(stagerCalls[Len(stagerCalls)].req.input) :
        LET out == StagerResult(resp, Len(files.items)) IN
        /\ stagerResp' = resp
        /\ IF out.thrown
           THEN /\ stagerPc' = "thrown"
                /\ stagerError' = Some(out.error)
                /\ UNCHANGED targets
           ELSE /\ stagerPc' = "returned"
                /\ targets' = Some(out.targets)
                /\ UNCHANGED stagerError
    /\ UNCHANGED <<files, stagerConn, stagerCalls, uploadPc, uploadError>>

\* a caller that starts uploading without comparing the counts
UploadCheckSkipped(ts, requested) == TRUE

\* _app._index.tsx line 332: targets.length !== allFiles.length throws
UploadCheck(ts, requested) == Len(ts) = requested

\* _app._index.tsx lines 325-332: uploadImagesIfNeeded receives the Stager's
\* outcome; a thrown error propagates, a count mismatch throws
UploadReceive ==
    /\ UNCHANGED <<runVars, clientVars>>
    /\ uploadPc = "awaitPrepare"
    /\ stagerPc \in {"returned", "thrown"}
    /\ IF stagerPc = "thrown"
       THEN /\ uploadPc' = "failed"
            /\ uploadError' = stagerError
       ELSE IF ~UploadCheck(Val(targets), Len(files.items))
       THEN /\ uploadPc' = "failed"
            /\ uploadError' = Some(Err("Staged uploads count mismatch", 0, <<>>))
       ELSE /\ uploadPc' = "uploading"
            /\ UNCHANGED uploadError
    /\ UNCHANGED <<files, stagerConn, stagerPc, stagerCalls, stagerResp, targets, stagerError>>

(* ------------------------ DuplicatePage (client) ---------------------- *)

\* largest quantity typed into the quantity field
MaxQty == 3

\* most external image URLs added over all rows
MaxUrls == 1

\* most local files dropped over all rows
MaxRowFiles == 2

\* a number as JavaScript holds it, for the decimal texts of QuantityTexts:
\* num / den, or NaN
NaN == [nan |-> TRUE, num |-> 0, den |-> 1]

Num(n, d) == [nan |-> FALSE, num |-> n, den |-> d]

NumLess(a, b) == ~a.nan /\ ~b.nan /\ a.num * b.den < b.num * a.den

NumEq(a, b) == ~a.nan /\ ~b.nan /\ a.num * b.den = b.num * a.den

DigitRun(s) == \A k \in 1..Len(s) : s[k] \in Digits

DigitValue(c) == CHOOSE n \in 0..9 : ToString(n) = c

RECURSIVE DigitsValue(_)
DigitsValue(s) ==
    IF s = <<>> THEN 0
    ELSE 10 * DigitsValue(SubSeq(s, 1, Len(s) - 1)) + DigitValue(s[Len(s)])

RECURSIVE Pow10(_)
Pow10(n) == IF n = 0 THEN 1 ELSE 10 * Pow10(n - 1)

\* the value of an unsigned decimal literal: digits, digits.digits, digits.
\* or .digits
DecimalLiteral(body) ==
    LET dots == {k \in 1..Len(body) : body[k] = "."} IN
    IF dots = {}
    THEN IF body # <<>> /\ DigitRun(body) THEN Num(DigitsValue(body), 1) ELSE NaN
    ELSE LET k == CHOOSE d \in dots : TRUE
             int == SubSeq(body, 1, k - 1)
             frac == SubSeq(body, k + 1, Len(body))
         IN IF /\ Cardinality(dots) = 1
               /\ DigitRun(int)
               /\ DigitRun(frac)
               /\ Len(int) + Len(frac) > 0
            THEN Num(DigitsValue(int) * Pow10(Len(frac)) + DigitsValue(frac), Pow10(Len(frac)))
            ELSE NaN

\* line 91: Number(quantity), for texts made of digits, ".", a sign, blanks
\* and letters that spell no numeric literal
Number(text) ==
    LET t == trim(text) IN
    IF t = <<>> THEN Num(0, 1)
    ELSE LET signed == Head(t) \in {"+", "-"}
             v == DecimalLiteral(IF signed THEN Tail(t) ELSE t)
         IN IF v.nan THEN NaN
            ELSE IF Head(t) = "-" THEN Num(0 - v.num, v.den)
            ELSE v

\* Number.isFinite: no text of QuantityTexts reads as an infinity
isFinite(x) == ~x.nan

MathMax(a, b) == IF NumLess(a, b) THEN b ELSE a

\* line 91: Math.max(1, Number.isFinite(Number(quantity)) ? Number(quantity) : 1)
qty(text) == MathMax(Num(1, 1), IF isFinite(Number(text)) THEN Number(text) ELSE Num(1, 1))

\* the texts typed into the quantity field
QuantityTexts ==
    {<<>>, <<"0">>, <<"a">>, <<"-", "1">>, <<"2", ".", "5">>, <<"0", ".", "5">>,
     <<" ", "2">>, <<"1", ".">>}
    \cup {<<ToString(n)>> : n \in 1..MaxQty}

\* line 93 and 99: a row as it is created
EmptyRow == [title |-> <<>>, imageFiles |-> <<>>, imageUrls |-> <<>>, imageOrder |-> <<>>]

\* line 99: while (next.length < qty) next.push(...)
RECURSIVE PushRows(_, _)
PushRows(next, q) ==
    IF NumLess(Num(Len(next), 1), q) THEN PushRows(Append(next, EmptyRow), q) ELSE next

\* line 100: while (next.length > qty) next.pop()
RECURSIVE PopRows(_, _)
PopRows(next, q) ==
    IF NumLess(q, Num(Len(next), 1)) THEN PopRows(SubSeq(next, 1, Len(next) - 1), q) ELSE next

\* lines 96-104: the effect that runs when qty changes
SyncRows(prev, q) == PopRows(PushRows(prev, q), q)

\* the k-th local file a user can drop; the drop zone only accepts image types
File(k) ==
    [name |-> ToString(k),
     type |-> IF k % 2 = 0 THEN "image/jpeg" ELSE "image/png",
     size |-> 10 * k]

\* the k-th external URL a user can type
Url(k) == <<"https://img/", ToString(k)>>

\* Array.prototype.splice(k, 1) on a 0-based position
RemoveAt(s, k) ==
    IF k < Len(s) THEN SubSeq(s, 1, k) \o SubSeq(s, k + 2, Len(s)) ELSE s

\* Array.prototype.splice(k, 0, x) on a 0-based position
InsertAt(s, k, x) ==
    IF k >= Len(s) THEN Append(s, x)
    ELSE SubSeq(s, 1, k) \o <<x>> \o SubSeq(s, k + 1, Len(s))

\* Array.prototype.filter(e => e !== x)
RECURSIVE Without(_, _)
Without(s, x) ==
    IF s = <<>> THEN <<>>
    ELSE (IF Head(s) # x THEN <<Head(s)>> ELSE <<>>) \o Without(Tail(s), x)

\* Array.prototype.indexOf, 0-based, -1 when absent
indexOf(s, x) ==
    IF \E k \in 1..Len(s) : s[k] = x
    THEN (CHOOSE k \in 1..Len(s) : s[k] = x /\ \A j \in 1..(k - 1) : s[j] # x) - 1
    ELSE 0 - 1

\* lines 174-189: addImageFiles on one row
addImageFiles(row, fs) ==
    [row EXCEPT
        !.imageFiles = row.imageFiles \o fs,
        !.imageOrder = row.imageOrder \o [i \in 1..Len(fs) |-> Len(row.imageFiles) + i - 1]]

\* lines 191-204: addImageUrl on one row
addImageUrl(row, url) ==
    [row EXCEPT
        !.imageUrls = Append(row.imageUrls, url),
        !.imageOrder = Append(row.imageOrder, 0 - (Len(row.imageUrls) + 1))]

\* a removal that leaves the codes of the later images as they were
removeImageAtKeepsCodes(row, imageIndex, isFile) ==
    IF isFile
    THEN [row EXCEPT
            !.imageFiles = RemoveAt(row.imageFiles, imageIndex),
            !.imageOrder = Without(row.imageOrder, imageIndex)]
    ELSE [row EXCEPT
            !.imageUrls = RemoveAt(row.imageUrls, imageIndex),
            !.imageOrder = Without(row.imageOrder, 0 - (imageIndex + 1))]

\* lines 206-235: removeImageAt on one row
removeImageAt(row, imageIndex, isFile) ==
    IF isFile
    THEN LET kept == Without(row.imageOrder, imageIndex) IN
         [row EXCEPT
            !.imageFiles = RemoveAt(row.imageFiles, imageIndex),
            !.imageOrder = [k \in 1..Len(kept) |->
                                IF kept[k] > imageIndex THEN kept[k] - 1 ELSE kept[k]]]
    ELSE LET kept == Without(row.imageOrder, 0 - (imageIndex + 1)) IN
         [row EXCEPT
            !.imageUrls = RemoveAt(row.imageUrls, imageIndex),
            !.imageOrder = [k \in 1..Len(kept) |->
                                IF kept[k] < 0 /\ 0 - kept[k] > imageIndex + 1
                                THEN kept[k] + 1 ELSE kept[k]]]

\* lines 237-250: reorderImages on one row
reorderImages(row, fromIndex, toIndex) ==
    [row EXCEPT
        !.imageOrder = InsertAt(RemoveAt(row.imageOrder, fromIndex), toIndex,
                                row.imageOrder[fromIndex + 1])]

\* lines 252-281: getOrderedImages, each image as its type and 0-based index
getOrderedImages(row) ==
    LET fileImages == [k \in 1..Len(row.imageFiles) |-> [type |-> "file", index |-> k - 1]]
        urlImages == [k \in 1..Len(row.imageUrls) |-> [type |-> "url", index |-> k - 1]]
        Found(orderIndex) ==
            IF orderIndex >= 0
            THEN IF orderIndex < Len(row.imageFiles)
                 THEN <<[type |-> "file", index |-> orderIndex]>> ELSE <<>>
            ELSE IF 0 - orderIndex - 1 < Len(row.imageUrls)
                 THEN <<[type |-> "url", index |-> 0 - orderIndex - 1]>> ELSE <<>>
        RECURSIVE Mapped(_)
        Mapped(order) ==
            IF order = <<>> THEN <<>> ELSE Found(Head(order)) \o Mapped(Tail(order))
    IN IF Len(row.imageOrder) > 0 THEN Mapped(row.imageOrder) ELSE fileImages \o urlImages

\* lines 283-302: resetImageOrder on one row
resetImageOrder(row) ==
    [row EXCEPT
        !.imageOrder = [k \in 1..Len(row.imageFiles) |-> k - 1]
                       \o [k \in 1..Len(row.imageUrls) |-> 0 - k]]

\* line 304: canSubmit
canSubmit ==
    /\ Has(selectedProduct)
    /\ \A i \in 1..Len(rows) : "title" \in fields => Len(trim(rows[i].title)) > 0

\* the titles typed into a row
RowTitles == {<<>>, <<" ">>, <<"T">>}

RowTitlesIn(s) == IF s = "sizing" THEN RowTitles ELSE {SourceTitle}

\* what the resource picker can hand back: nothing, a product or a variant
VariantId == GidPrefix \o <<"s", "h", "o", "p", "i", "f", "y", "/", "P", "r", "o", "d", "u",
                            "c", "t", "V", "a", "r", "i", "a", "n", "t", "/", "7">>

Picked ==
    {None} \cup {Some([id |-> id, title |-> t]) :
                    id \in {CanonicalId, <<"1", "2">>, VariantId}, t \in {Some(SourceTitle)}}

\* String.prototype.includes
includes(s, part) ==
    \E k \in 0..(Len(s) - Len(part)) : SubSeq(s, k + 1, k + Len(part)) = part

\* every local file of the form
FilesInUse == UNION {{rows[i].imageFiles[k] : k \in 1..Len(rows[i].imageFiles)} : i \in 1..Len(rows)}

UrlsInUse == UNION {{rows[i].imageUrls[k] : k \in 1..Len(rows[i].imageUrls)} : i \in 1..Len(rows)}

\* the next files a user drops: files not yet on the form, lowest number first
FreshFiles(n) ==
    LET free == {k \in 1..(2 * MaxRowFiles) : File(k) \notin FilesInUse}
        RECURSIVE Lowest(_, _)
        Lowest(set, m) ==
            IF m = 0 \/ set = {} THEN <<>>
            ELSE LET k == CHOOSE x \in set : \A y \in set : x <= y
                 IN <<File(k)>> \o Lowest(set \ {k}, m - 1)
    IN Lowest(free, n)

FreshUrl == Url(CHOOSE k \in 1..(MaxUrls + 2) : Url(k) \notin UrlsInUse)

\* no submit attempt is under way
NoAttempt ==
    /\ clientPc = "idle"
    /\ allFiles = <<>>
    /\ prepReq = None
    /\ clientTargets = <<>>
    /\ uploadsSent = {}
    /\ pending = {}
    /\ perRowUrls = <<>>
    /\ stagedByRow = None
    /\ payload = None

attemptVars ==
    <<clientPc, allFiles, prepReq, clientTargets, uploadsSent, pending, perRowUrls,
      stagedByRow, payload>>

\* a user who sizes the form types any quantity; one who arranges images
\* keeps to one or two rows
QuantityTextsIn(s) == IF s = "sizing" THEN QuantityTexts ELSE {<<"1">>, <<"2">>}

\* line 565: the quantity field changes; lines 96-104 run when qty changed
SetQuantity ==
    /\ UNCHANGED <<runVars, stagerVars>>
    /\ clientPc = "idle"
    /\ \E v \in QuantityTextsIn(session) :
        /\ quantity' = v
        /\ rows' = IF NumEq(qty(v), qty(quantity)) THEN rows ELSE SyncRows(rows, qty(v))
    /\ UNCHANGED <<selectedProduct, fields, isSubmitting, session, attemptVars>>

\* lines 124-136: the single row a pick leaves
PickedRows(prod) ==
    <<[title |-> Val(Coalesce(prod.title, Some(<<>>))),
       imageFiles |-> <<>>, imageUrls |-> <<>>, imageOrder |-> <<>>]>>

\* lines 106-143: handlePickProduct, the picker's answer included
handlePickProduct ==
    /\ UNCHANGED <<runVars, stagerVars>>
    /\ clientPc = "idle"
    /\ \E selected \in Picked :
        IF ~Has(selected)
        THEN UNCHANGED <<selectedProduct, rows>>
        ELSE LET prod == Val(selected) IN
             IF includes(prod.id, <<"/", "P", "r", "o", "d", "u", "c", "t", "V", "a", "r", "i",
                                    "a", "n", "t", "/">>)
             THEN selectedProduct' = None /\ rows' = rows
             ELSE /\ selectedProduct' =
                        Some([id |-> IF StartsWith(prod.id, GidPrefix) THEN prod.id
                                     ELSE ProductPrefix \o prod.id,
                              title |-> prod.title])
                  /\ rows' = PickedRows(prod)
    /\ UNCHANGED <<quantity, fields, isSubmitting, session, attemptVars>>

\* line 518: the selected product's tag is removed
ClearProduct ==
    /\ UNCHANGED <<runVars, stagerVars>>
    /\ clientPc = "idle"
    /\ session = "sizing"
    /\ Has(selectedProduct)
    /\ selectedProduct' = None
    /\ UNCHANGED <<quantity, rows, fields, isSubmitting, session, attemptVars>>

\* lines 536-537: a field checkbox changes
SetField ==
    /\ UNCHANGED <<runVars, stagerVars>>
    /\ clientPc = "idle"
    /\ session = "sizing"
    /\ \E f \in {"title", "images"}, v \in BOOLEAN :
        fields' = IF v THEN fields \cup {f} ELSE fields \ {f}
    /\ UNCHANGED <<quantity, rows, selectedProduct, isSubmitting, session, attemptVars>>

\* lines 145-151 and 656: updateRow(activeModalRow, { title: v })
updateRow ==
    /\ UNCHANGED <<runVars, stagerVars>>
    /\ clientPc = "idle"
    /\ \E i \in 1..Len(rows), t \in RowTitlesIn(session) :
        rows' = [rows EXCEPT ![i].title = t]
    /\ UNCHANGED <<quantity, selectedProduct, fields, isSubmitting, session, attemptVars>>

\* the user is one who arranges images: on a full form, or on one row alone
Arranging == session \in {"images", "arrange"}

\* the external URLs a user types: one more when only one row is arranged
UrlLimit == IF session = "arrange" THEN MaxUrls + 1 ELSE MaxUrls

\* lines 691-694: files are dropped on the row the editor is open for
AddImageFiles ==
    /\ UNCHANGED <<runVars, stagerVars>>
    /\ clientPc = "idle"
    /\ Arranging
    /\ \E i \in 1..Len(rows), n \in 1..(MaxRowFiles - Cardinality(FilesInUse)) :
        rows' = [rows EXCEPT ![i] = addImageFiles(rows[i], FreshFiles(n))]
    /\ UNCHANGED <<quantity, selectedProduct, fields, isSubmitting, session, attemptVars>>

\* lines 785-790: Add URL
AddImageUrl ==
    /\ UNCHANGED <<runVars, stagerVars>>
    /\ clientPc = "idle"
    /\ Arranging
    /\ Cardinality(UrlsInUse) < UrlLimit
    /\ \E i \in 1..Len(rows) :
        rows' = [rows EXCEPT ![i] = addImageUrl(rows[i], FreshUrl)]
    /\ UNCHANGED <<quantity, selectedProduct, fields, isSubmitting, session, attemptVars>>

\* lines 753-765: the up and down buttons of a displayed image
ReorderImages ==
    /\ UNCHANGED <<runVars, stagerVars>>
    /\ clientPc = "idle"
    /\ Arranging
    /\ \E i \in 1..Len(rows) :
        LET shown == Len(getOrderedImages(rows[i])) IN
        \E displayIndex \in 0..(shown - 1), toIndex \in 0..(shown - 1) :
            /\ toIndex \in {displayIndex - 1, displayIndex + 1}
            /\ rows' = [rows EXCEPT ![i] = reorderImages(rows[i], displayIndex, toIndex)]
    /\ UNCHANGED <<quantity, selectedProduct, fields, isSubmitting, session, attemptVars>>

\* line 771: the remove button of a displayed image
RemoveImageAt ==
    /\ UNCHANGED <<runVars, stagerVars>>
    /\ clientPc = "idle"
    /\ Arranging
    /\ \E i \in 1..Len(rows) :
        LET shown == getOrderedImages(rows[i]) IN
        \E d \in 1..Len(shown) :
            rows' = [rows EXCEPT
                        ![i] = removeImageAt(rows[i], shown[d].index, shown[d].type = "file")]
    /\ UNCHANGED <<quantity, selectedProduct, fields, isSubmitting, session, attemptVars>>

\* line 681: Reset Order
ResetImageOrder ==
    /\ UNCHANGED <<runVars, stagerVars>>
    /\ clientPc = "idle"
    /\ Arranging
    /\ \E i \in 1..Len(rows) :
        rows' = [rows EXCEPT ![i] = resetImageOrder(rows[i])]
    /\ UNCHANGED <<quantity, selectedProduct, fields, isSubmitting, session, attemptVars>>

\* lines 632-650: the original data are put back into the row
RestoreOriginal ==
    /\ UNCHANGED <<runVars, stagerVars>>
    /\ clientPc = "idle"
    /\ session = "images"
    /\ Has(selectedProduct)
    /\ \E i \in 1..Len(rows) :
        rows' = [rows EXCEPT
                    ![i] = resetImageOrder(
                             [rows[i] EXCEPT
                                !.title = Val(Coalesce(Val(selectedProduct).title, Some(<<>>)))])]
    /\ UNCHANGED <<quantity, selectedProduct, fields, isSubmitting, session, attemptVars>>

\* lines 310-317: the files of one row that take part in the upload
RECURSIVE RowFiles(_, _, _)
RowFiles(r, i, fileIndex) ==
    IF fileIndex >= Len(r.imageFiles) THEN <<>>
    ELSE LET orderIndex == indexOf(r.imageOrder, fileIndex) IN
         (IF orderIndex # 0 - 1
          THEN <<[i |-> i, file |-> r.imageFiles[fileIndex + 1], orderIndex |-> orderIndex]>>
          ELSE <<>>)
         \o RowFiles(r, i, fileIndex + 1)

\* lines 307-318: allFiles, rows in order and files in order within a row
RECURSIVE AllFilesFrom(_, _)
AllFilesFrom(rs, i) ==
    IF i >= Len(rs) THEN <<>> ELSE RowFiles(rs[i + 1], i, 0) \o AllFilesFrom(rs, i + 1)

AllFiles(rs) == AllFilesFrom(rs, 0)

\* an early return that never happens
NothingToUploadNever(af) == FALSE

\* line 320: allFiles.length === 0
NothingToUpload(af) == Len(af) = 0

\* line 322: the files parameter of prepareImageUploads
ReqFiles(af) ==
    [k \in 1..Len(af) |->
        [filename |-> af[k].file.name,
         mimeType |-> IF af[k].file.type = "" THEN "image/jpeg" ELSE af[k].file.type,
         size |-> af[k].file.size]]

\* what prepareImageUploads can answer to its caller: an error, or targets in
\* input order, possibly fewer or more than requested
PrepareAnswers(req) ==
    LET all == [k \in 1..Len(req) |-> TargetFor(req[k])] IN
    {[ok |-> FALSE, targets |-> <<>>]}
    \cup {[ok |-> TRUE, targets |-> t] :
            t \in {all, SubSeq(all, 1, Len(all) - 1), Append(all, StrayTarget)}}

\* lines 350-356: where a completed upload's resource URL goes in its row's list
CollectUrl(urls, orderIndex, resourceUrl) ==
    IF orderIndex >= Len(urls) THEN Append(urls, resourceUrl)
    ELSE InsertAt(urls, orderIndex, resourceUrl)

\* lines 394-413: the imageUrls of one row of the payload
RowImageUrls(r, ri, staged) ==
    LET mine == {k \in 1..Len(staged) : staged[k].i = ri}
        uploadedUrls ==
            IF mine = {} THEN <<>>
            ELSE staged[CHOOSE k \in mine : \A j \in mine : k <= j].urls
        ordered == getOrderedImages(r)
        RECURSIVE External(_)
        External(imgs) ==
            IF imgs = <<>> THEN <<>>
            ELSE (IF Head(imgs).type = "url"
                  THEN <<r.imageUrls[Head(imgs).index + 1]>> ELSE <<>>)
                 \o External(Tail(imgs))
    IN uploadedUrls \o External(ordered)

\* lines 378-436: the payload of bulkDuplicateProducts
BuildPayload(staged) ==
    [sourceProductId |->
        IF StartsWith(Val(selectedProduct).id, GidPrefix) THEN Val(selectedProduct).id
        ELSE ProductPrefix \o Val(selectedProduct).id,
     duplicates |->
        [k \in 1..Len(rows) |->
            IF fields = {} THEN [title |-> None, imageUrls |-> None]
            ELSE [title |->
                    IF "title" \in fields /\ trim(rows[k].title) # <<>>
                    THEN Some(trim(rows[k].title)) ELSE None,
                  imageUrls |->
                    IF "images" \in fields /\ Len(RowImageUrls(rows[k], k - 1, staged)) > 0
                    THEN Some(RowImageUrls(rows[k], k - 1, staged)) ELSE None]]]

\* what bulkDuplicateProducts can answer to its caller: an error, no id, or
\* one id per duplicate
DuplicateAnswers(p) ==
    {[ok |-> FALSE, productIds |-> <<>>], [ok |-> TRUE, productIds |-> <<>>],
     [ok |-> TRUE,
      productIds |-> [k \in 1..Len(p.duplicates) |-> ProductPrefix \o <<ToString(k)>>]]}

\* a failed staging or upload after which the payload is sent all the same
UploadAttemptFailedGoesOn ==
    /\ clientPc' = "awaitDuplicate"
    /\ stagedByRow' = Some(perRowUrls)
    /\ payload' = Some(BuildPayload(perRowUrls))
    /\ UNCHANGED <<allFiles, prepReq, clientTargets, uploadsSent, pending, perRowUrls,
                   isSubmitting, session>>

\* lines 372-375: the attempt ends in the catch around uploadImagesIfNeeded
UploadAttemptFailed ==
    /\ clientPc' = "idle"
    /\ allFiles' = <<>>
    /\ prepReq' = None
    /\ clientTargets' = <<>>
    /\ uploadsSent' = {}
    /\ pending' = {}
    /\ perRowUrls' = <<>>
    /\ stagedByRow' = None
    /\ payload' = None
    /\ UNCHANGED <<isSubmitting, session>>

\* lines 363-370, 306-325 and 376-447: the submit button is pressed; without
\* files to upload the payload is built and sent at once
SubmitClick ==
    /\ UNCHANGED <<runVars, stagerVars>>
    /\ clientPc = "idle"
    /\ canSubmit
    /\ ~isSubmitting
    /\ isSubmitting' = TRUE
    /\ allFiles' = AllFiles(rows)
    /\ IF NothingToUpload(AllFiles(rows))
       THEN /\ stagedByRow' = Some(<<>>)
            /\ payload' = Some(BuildPayload(<<>>))
            /\ prepReq' = None
            /\ clientPc' = "awaitDuplicate"
       ELSE /\ prepReq' = Some(ReqFiles(AllFiles(rows)))
            /\ clientPc' = "awaitPrepare"
            /\ UNCHANGED <<stagedByRow, payload>>
    /\ UNCHANGED <<quantity, rows, selectedProduct, fields, session, clientTargets,
                   uploadsSent, pending, perRowUrls>>

\* lines 326-345: prepareImageUploads answers; the targets are counted and
\* every upload is sent
PrepareReturn ==
    /\ UNCHANGED <<runVars, stagerVars>>
    /\ clientPc = "awaitPrepare"
    /\ \E ans \in PrepareAnswers(Val(prepReq)) :
        IF ~ans.ok \/ Len(ans.targets) # Len(allFiles)
        THEN UploadAttemptFailed
        ELSE /\ clientTargets' = ans.targets
             /\ uploadsSent' = 1..Len(ans.targets)
             /\ pending' = 1..Len(ans.targets)
             /\ perRowUrls' = [k \in 1..Len(rows) |-> [i |-> k - 1, urls |-> <<>>]]
             /\ clientPc' = "uploading"
             /\ UNCHANGED <<allFiles, prepReq, stagedByRow, payload, isSubmitting,
                            session>>
    /\ UNCHANGED <<quantity, rows, selectedProduct, fields>>

\* lines 345-360 and 376-447: one upload completes; when it was the last one
\* the payload is built and sent
UploadReturn ==
    /\ UNCHANGED <<runVars, stagerVars>>
    /\ clientPc = "uploading"
    /\ \E n \in pending, ok \in BOOLEAN :
        IF ~ok
        THEN UploadAttemptFailed
        ELSE LET f == allFiles[n]
                 collected ==
                    [perRowUrls EXCEPT
                        ![f.i + 1].urls = CollectUrl(@, f.orderIndex, clientTargets[n].resourceUrl)]
             IN
             /\ perRowUrls' = collected
             /\ pending' = pending \ {n}
             /\ IF pending = {n}
                THEN /\ stagedByRow' = Some(collected)
                     /\ payload' = Some(BuildPayload(collected))
                     /\ clientPc' = "awaitDuplicate"
                ELSE UNCHANGED <<stagedByRow, payload, clientPc>>
             /\ UNCHANGED <<allFiles, prepReq, clientTargets, uploadsSent, isSubmitting,
                            session>>
    /\ UNCHANGED <<quantity, rows, selectedProduct, fields>>

\* lines 448-474: bulkDuplicateProducts answers
DuplicateReturn ==
    /\ UNCHANGED <<runVars, stagerVars>>
    /\ clientPc = "awaitDuplicate"
    /\ \E ans \in DuplicateAnswers(Val(payload)) : isSubmitting' = FALSE
    /\ clientPc' = "idle"
    /\ allFiles' = <<>>
    /\ prepReq' = None
    /\ clientTargets' = <<>>
    /\ uploadsSent' = {}
    /\ pending' = {}
    /\ perRowUrls' = <<>>
    /\ stagedByRow' = None
    /\ payload' = None
    /\ UNCHANGED <<quantity, rows, selectedProduct, fields, session>>

(* --------------------------- specifications --------------------------- *)

\* the Stager before any call is made
StagerIdle ==
    /\ files = ArrayOf(<<>>)
    /\ stagerConn = TRUE
    /\ stagerPc = "start"
    /\ stagerCalls = <<>>
    /\ stagerResp = NoResp
    /\ targets = None
    /\ stagerError = None
    /\ uploadPc = "awaitPrepare"
    /\ uploadError = None

\* the Orchestrator before any call is made
RunIdle ==
    /\ params = [sourceProductId |-> Some(CanonicalId), duplicates |-> ArrayOf(<<NoOverrides>>)]
    /\ connected = TRUE
    /\ pc = "start"
    /\ sourceGid = None
    /\ base = None
    /\ baseImageUrls = <<>>
    /\ idx = 0
    /\ created = None
    /\ newProductIds = <<>>
    /\ calls = <<>>
    /\ lastResp = NoResp
    /\ returnedIds = <<>>
    /\ delays = 0
    /\ waitedMs = 0
    /\ answered = 0
    /\ result = None
    /\ error = None

\* lines 73-94: the page as it is first rendered
ClientIdle ==
    /\ quantity = <<"1">>
    /\ rows = <<EmptyRow>>
    /\ selectedProduct = None
    /\ fields = {"title", "images"}
    /\ isSubmitting = FALSE
    /\ session = "sizing"
    /\ NoAttempt

Init == InitRun /\ StagerIdle /\ ClientIdle

Next ==
    \/ Start
    \/ FetchReturn
    \/ CreateReturn
    \/ BulkCreateReturn
    \/ BulkUpdateReturn
    \/ DelayElapsed

\* runs of bulkDuplicateProducts
Spec == Init /\ [][Next]_vars

\* the same runs when every remote call is answered and every timer fires
SpecLive ==
    /\ Init
    /\ [][Next]_vars
    /\ WF_vars(Start)
    /\ WF_vars(FetchReturn)
    /\ WF_vars(CreateReturn)
    /\ WF_vars(BulkCreateReturn)
    /\ WF_vars(BulkUpdateReturn)
    /\ WF_vars(DelayElapsed)

InitUpload == RunIdle /\ InitStager /\ ClientIdle

NextUpload == StagerStart \/ StagerReturn \/ UploadReceive

\* runs of prepareImageUploads under its caller
SpecStager == InitUpload /\ [][NextUpload]_vars

\* the page first rendered, for either kind of user
ClientStart ==
    /\ quantity = <<"1">>
    /\ rows = <<EmptyRow>>
    /\ selectedProduct = None
    /\ fields = {"title", "images"}
    /\ isSubmitting = FALSE
    /\ session \in {"sizing", "images"}
    /\ NoAttempt

InitClient == RunIdle /\ StagerIdle /\ ClientStart

NextClient ==
    \/ SetQuantity
    \/ handlePickProduct
    \/ ClearProduct
    \/ SetField
    \/ updateRow
    \/ AddImageFiles
    \/ AddImageUrl
    \/ ReorderImages
    \/ RemoveImageAt
    \/ ResetImageOrder
    \/ RestoreOriginal
    \/ SubmitClick
    \/ PrepareReturn
    \/ UploadReturn
    \/ DuplicateReturn

\* the page under its user and the answers of the two remote operations
SpecClient == InitClient /\ [][NextClient]_vars

\* the image editor of the first row, for a user who only arranges its images
InitArrange ==
    /\ RunIdle
    /\ StagerIdle
    /\ quantity = <<"1">>
    /\ rows = <<EmptyRow>>
    /\ selectedProduct = None
    /\ fields = {"title", "images"}
    /\ isSubmitting = FALSE
    /\ session = "arrange"
    /\ NoAttempt

NextArrange ==
    \/ AddImageFiles
    \/ AddImageUrl
    \/ ReorderImages
    \/ RemoveImageAt
    \/ ResetImageOrder

\* one row's images under addImageFiles, addImageUrl, reorderImages,
\* removeImageAt and resetImageOrder
SpecArrange == InitArrange /\ [][NextArrange]_vars

InitAll == Init \/ InitUpload

NextAll == Next \/ NextUpload

\* both operations, each callable on its own
SpecAll == InitAll /\ [][NextAll]_vars

(* ------------------------------ properties ---------------------------- *)

InSeq(x, s) == \E k \in 1..Len(s) : s[k] = x

\* positions in the request log of the calls of one operation
CallsOf(op) == {k \in 1..Len(calls) : calls[k].op = op}

\* C1: a run whose productCreate calls all succeed returns exactly N ids with
\* count = N, productIds[i] being the id productCreate returned for
\* duplicates[i]; once the source is fetched, nothing but a failing
\* productCreate makes the run throw, whatever the variant and price calls do.
C1_SuccessReturnsIdsInOrder ==
    LET N == Len(Duplicates) IN
    /\ pc = "returned" =>
        /\ Has(result)
        /\ Len(Val(result).productIds) = N
        /\ Val(result).count = N
        /\ Len(returnedIds) = N
        /\ \A i \in 1..N :
            /\ returnedIds[i].dup = i
            /\ Val(result).productIds[i] = returnedIds[i].id
    /\ (pc = "thrown" /\ Has(base)) =>
        /\ lastResp.kind = "productCreate"
        /\ Len(lastResp.userErrors) > 0 \/ ~Has(lastResp.product)

\* a run of three duplicates returned ids that the remote API handed out in
\* non-ascending order, the last price update having failed
C1_Witness ==
    /\ pc = "returned"
    /\ Len(Duplicates) = 3
    /\ Val(result).productIds[1] > Val(result).productIds[2]
    /\ lastResp.kind = "productVariantsBulkUpdate"
    /\ Len(lastResp.userErrors) > 0

RemoteOps ==
    {"product", "productCreate", "productVariantsBulkCreate", "productVariantsBulkUpdate"}

\* C2: when the productCreate of the duplicate at 1-based index k reports user
\* errors the run throws an error naming k and holding every remote message;
\* the failed call is the last request ever sent, and no request other than
\* query, create, variant create and variant update (no delete) was sent.
C2_CreateFailureAborts ==
    (lastResp.kind = "productCreate" /\ Len(lastResp.userErrors) > 0) =>
        LET k == Len(returnedIds) + 1 IN
        /\ pc = "thrown"
        /\ result = None
        /\ Has(error)
        /\ Val(error).index = k
        /\ \A j \in 1..Len(lastResp.userErrors) : InSeq(lastResp.userErrors[j], Val(error).detail)
        /\ calls[Len(calls)].op = "productCreate"
        /\ calls[Len(calls)].dup = k
        /\ Cardinality(CallsOf("productCreate")) = k
        /\ Len(newProductIds) = k - 1
        /\ \A c \in 1..Len(calls) : calls[c].op \in RemoteOps

\* the second of three duplicates failed with two remote messages
C2_Witness ==
    /\ pc = "thrown"
    /\ lastResp.kind = "productCreate"
    /\ Len(lastResp.userErrors) = 2
    /\ Len(Duplicates) = 3
    /\ Val(error).index = 2
    /\ Len(newProductIds) = 1

\* C3: a call of bulkDuplicateProducts without sourceProductId or without a
\* non-empty duplicates array, and a call of prepareImageUploads without a
\* non-empty files array, sends no request and can only end by throwing.
C3_ValidationBeforeRemoteCalls ==
    /\ (\/ ~Has(params.sourceProductId)
        \/ Val(params.sourceProductId) = <<>>
        \/ ~params.duplicates.isArray
        \/ Len(params.duplicates.items) = 0) =>
            /\ calls = <<>>
            /\ pc \in {"start", "thrown"}
            /\ pc = "thrown" => Has(error) /\ result = None
    /\ (~files.isArray \/ Len(files.items) = 0) =>
            /\ stagerCalls = <<>>
            /\ stagerPc \in {"start", "thrown"}
            /\ stagerPc = "thrown" => Has(stagerError) /\ targets = None

\* both operations have thrown on an empty list, with a valid id and a
\* connection at hand
C3_Witness ==
    /\ pc = "thrown"
    /\ params.sourceProductId = Some(CanonicalId)
    /\ params.duplicates = ArrayOf(<<>>)
    /\ connected
    /\ stagerPc = "thrown"
    /\ files = ArrayOf(<<>>)
    /\ stagerConn

\* C4: every sourceProductId whose normalized form is not of the shape
\* gid://shopify/Product/<numeric> makes the run fail before any request is sent.
C4_NonCanonicalIdFailsFast ==
    (/\ Has(params.sourceProductId)
     /\ Val(params.sourceProductId) # <<>>
     /\ ~IsCanonicalGid(normalizeGid(Val(params.sourceProductId)))) =>
        /\ calls = <<>>
        /\ pc \in {"start", "thrown"}

AllDigits(x) == x # <<>> /\ \A k \in 1..Len(x) : x[k] \in Digits

\* the lengths n such that x, not itself a gid, ends in "/" followed by n digits
PathSuffixLengths(x) ==
    {n \in 1..(Len(x) - 1) :
        /\ ~StartsWith(x, GidPrefix)
        /\ x[Len(x) - n] = "/"
        /\ \A k \in (Len(x) - n + 1)..Len(x) : x[k] \in Digits}

\* C5: normalizeGid returns a canonical id unchanged, turns a bare numeric id n
\* and a path-suffixed id (one that is not itself a gid) ending in /n into
\* gid://shopify/Product/n, and applying it to its own result changes nothing.
C5_NormalizeGidIdempotent ==
    Has(sourceGid) =>
        LET x == Val(params.sourceProductId)
            y == Val(sourceGid)
        IN
        /\ IsCanonicalGid(x) => y = x
        /\ AllDigits(x) => y = ProductPrefix \o x
        /\ \A n \in PathSuffixLengths(x) : y = ProductPrefix \o SubSeq(x, Len(x) - n + 1, Len(x))
        /\ normalizeGid(y) = y

\* a path-suffixed id has been normalized to a canonical one
C5_Witness ==
    /\ Has(sourceGid)
    /\ PathSuffixLengths(Val(params.sourceProductId)) # {}
    /\ Val(sourceGid) # Val(params.sourceProductId)
    /\ IsCanonicalGid(Val(sourceGid))

\* C6: the source product is queried exactly once, as the first request of
\* the run and so before any productCreate; when the query finds no product
\* the run throws "Base product not found" having sent nothing else.
C6_SourceFetchedOnceFirst ==
    /\ Cardinality(CallsOf("product")) <= 1
    /\ calls # <<>> => calls[1].op = "product"
    /\ pc \notin {"start", "thrown"} => Cardinality(CallsOf("product")) = 1
    /\ (lastResp.kind = "product" /\ ~Has(lastResp.product)) =>
        /\ pc = "thrown"
        /\ Val(error).message = "Base product not found"
        /\ Len(calls) = 1

\* a run went through two iterations after its single query
C6_Witness ==
    /\ Cardinality(CallsOf("productCreate")) >= 2
    /\ Cardinality(CallsOf("product")) = 1
    /\ pc = "returned"

\* a run whose query found no product
C6_WitnessNotFound ==
    /\ lastResp.kind = "product"
    /\ ~Has(lastResp.product)
    /\ pc = "thrown"

C8_StagerAggregatesUserErrors ==
    /\ (stagerResp # NoResp /\ Len(stagerResp.userErrors) > 0) =>
        /\ stagerPc = "thrown"
        /\ targets = None
        /\ Has(stagerError)
        /\ \A j \in 1..Len(stagerResp.userErrors) :
            InSeq(stagerResp.userErrors[j], Val(stagerError).detail)
    /\ ~stagerConn =>
        /\ stagerCalls = <<>>
        /\ stagerPc \in {"start", "thrown"}
        /\ targets = None

\* the remote API reported two user errors and the Stager threw
C8_Witness ==
    /\ stagerPc = "thrown"
    /\ stagerResp # NoResp
    /\ Len(stagerResp.userErrors) = 2
    /\ Len(files.items) >= 1

\* the Stager threw for want of a connection, the files being valid
C8_WitnessNoConnection ==
    /\ stagerPc = "thrown"
    /\ ~stagerConn
    /\ Len(files.items) >= 1

\* t is a contiguous piece of s
IsPieceOf(t, s) ==
    \E a \in 1..(Len(s) + 1) : \E b \in (a - 1)..Len(s) : t = SubSeq(s, a, b)

\* C9: a duplicate whose tags are an array, the empty one included, has exactly
\* that array sent to productCreate; tags given as a string send only pieces
\* of that string; the source tags are sent only when the tags are absent.
C9_TagOverrideReplaces ==
    \A c \in CallsOf("productCreate") :
        LET dup == Duplicates[calls[c].dup]
            sent == calls[c].req.product.tags
        IN
        /\ dup.tags.kind = "array" => sent = dup.tags.arr
        /\ dup.tags.kind = "string" =>
            \A k \in 1..Len(sent) : IsPieceOf(sent[k], dup.tags.str)
        /\ dup.tags.kind = "absent" => sent = Val(Coalesce(Val(base).tags, Some(<<>>)))

\* an empty tag array was sent as is for a source product that has tags
C9_Witness ==
    \E c \in CallsOf("productCreate") :
        /\ Duplicates[calls[c].dup].tags = TagArray(<<>>)
        /\ Has(Val(base).tags)
        /\ Len(Val(Val(base).tags)) > 0
        /\ calls[c].req.product.tags = <<>>

\* positions of the characters of s that are not white space
InkPositions(s) == {k \in 1..Len(s) : s[k] \notin WhiteSpace}

\* C10: the title sent to productCreate is the override without its
\* surrounding white space when the override has a character other than white
\* space, and the source product's title when the override is absent, empty
\* or only white space.
C10_TitleFallback ==
    \A c \in CallsOf("productCreate") :
        LET dup == Duplicates[calls[c].dup]
            sent == calls[c].req.product.title
            ink == IF Has(dup.title) THEN InkPositions(Val(dup.title)) ELSE {}
        IN
        IF ink = {}
        THEN sent = Val(base).title
        ELSE sent = SubSeq(Val(dup.title),
                           CHOOSE a \in ink : \A k \in ink : a <= k,
                           CHOOSE b \in ink : \A k \in ink : k <= b)

\* one run sent a trimmed override for one duplicate and the source title for
\* another whose override was only white space
C10_Witness ==
    /\ \E c \in CallsOf("productCreate") :
        /\ Duplicates[calls[c].dup].title = Some(<<" ", "a">>)
        /\ calls[c].req.product.title = <<"a">>
    /\ \E c \in CallsOf("productCreate") :
        /\ Duplicates[calls[c].dup].title = Some(<<" ">>)
        /\ calls[c].req.product.title = SourceTitle

\* an override that is absent, empty or only white space
BlankOverride(o) == ~Has(o) \/ InkPositions(Val(o)) = {}

\* C11: for descriptionHtml, vendor and productType, an override that is
\* absent, empty or only white space yields the source product's value in the
\* productCreate request.
C11_BlankOverrideFallsBack ==
    \A c \in CallsOf("productCreate") :
        LET dup == Duplicates[calls[c].dup]
            sent == calls[c].req.product
        IN
        /\ BlankOverride(dup.descriptionHtml) => sent.descriptionHtml = Val(base).descriptionHtml
        /\ BlankOverride(dup.vendor) => sent.vendor = Val(base).vendor
        /\ BlankOverride(dup.productType) => sent.productType = Val(base).productType

\* C12: the media of a productCreate request are the first 50 entries, in
\* order, of the duplicate's imageUrls when that list is non-empty and of the
\* source product's image URLs otherwise; no request carries more than 50.
C12_MediaResolution ==
    \A c \in CallsOf("productCreate") :
        LET dup == Duplicates[calls[c].dup]
            own == Has(dup.imageUrls) /\ Val(dup.imageUrls) # <<>>
            src == IF own THEN Val(dup.imageUrls) ELSE baseImageUrls
            n == IF Len(src) < 50 THEN Len(src) ELSE 50
            sent == calls[c].req.media
        IN
        /\ n = 0 => sent = None
        /\ n > 0 =>
            /\ Has(sent)
            /\ Len(Val(sent)) = n
            /\ \A k \in 1..n : Val(sent)[k] = src[k]

\* one run sent the source images for an empty list and the first 50 of a
\* list of 51
C12_Witness ==
    /\ Len(baseImageUrls) > 0
    /\ \E c \in CallsOf("productCreate") :
        /\ Duplicates[calls[c].dup].imageUrls = Some(<<>>)
        /\ calls[c].req.media = Some(baseImageUrls)
    /\ \E c \in CallsOf("productCreate") :
        /\ Len(Val(Duplicates[calls[c].dup].imageUrls)) = 51
        /\ Len(Val(calls[c].req.media)) = 50

\* positions in the request log of the price updates sent for duplicate d
UpdatesOf(d) == {k \in CallsOf("productVariantsBulkUpdate") : calls[k].dup = d}

\* C13: for a source product with variants, when the variant creation of a
\* duplicate with a price override returns created variants without user
\* errors, the very next request is the one price update of that duplicate; it
\* names only the first created variant, with the override price, while the
\* creation request carried every source variant's own price.
C13_PriceOverrideFirstVariant ==
    /\ [](Has(base) /\ Len(Val(base).variants) > 0 =>
            /\ \A d \in 1..Len(Duplicates) : Cardinality(UpdatesOf(d)) <= 1
            /\ \A k \in CallsOf("productVariantsBulkUpdate") :
                /\ k > 1
                /\ calls[k - 1].op = "productVariantsBulkCreate"
                /\ calls[k - 1].dup = calls[k].dup
                /\ calls[k - 1].req.productId = calls[k].req.productId
                /\ Len(calls[k].req.variants) = 1
                /\ calls[k].req.variants[1].price = Val(Duplicates[calls[k].dup].price)
                /\ \A j \in 1..Len(Val(base).variants) :
                    calls[k - 1].req.variants[j].price = Val(base).variants[j].price)
    /\ [][(/\ pc = "awaitBulkCreate"
           /\ pc' # "awaitBulkCreate"
           /\ Len(lastResp'.userErrors) = 0
           /\ Len(lastResp'.productVariants) > 0
           /\ Truthy(Duplicates[idx + 1].price)) =>
            /\ pc' = "awaitBulkUpdate"
            /\ Len(calls') = Len(calls) + 1
            /\ calls'[Len(calls')].op = "productVariantsBulkUpdate"
            /\ calls'[Len(calls')].dup = idx + 1
            /\ calls'[Len(calls')].req.variants =
                  <<[id |-> lastResp'.productVariants[1],
                     price |-> Val(Duplicates[idx + 1].price)]>>]_vars

\* source prices 10.00 and 12.00 were replicated and the override 9.99 was
\* sent for the first created variant alone
C13_Witness ==
    \E k \in CallsOf("productVariantsBulkUpdate") :
        /\ k > 1
        /\ calls[k - 1].op = "productVariantsBulkCreate"
        /\ calls[k - 1].req.variants[1].price = Some("10.00")
        /\ calls[k - 1].req.variants[2].price = Some("12.00")
        /\ calls[k].req.variants =
              <<[id |-> calls[k].req.productId * 100 + 1, price |-> "9.99"]>>

\* C14: for a source product without variants no variant creation is ever
\* sent; a duplicate with a price override whose created product reports its
\* standalone variant gets exactly one price update, sent right after its
\* productCreate and naming that variant with the override price; a duplicate
\* without a price override gets none.
C14_StandalonePriceOverride ==
    /\ [](Has(base) /\ Len(Val(base).variants) = 0 =>
            /\ CallsOf("productVariantsBulkCreate") = {}
            /\ \A d \in 1..Len(Duplicates) :
                /\ Cardinality(UpdatesOf(d)) <= 1
                /\ ~Truthy(Duplicates[d].price) => UpdatesOf(d) = {}
            /\ \A k \in CallsOf("productVariantsBulkUpdate") :
                /\ k > 1
                /\ calls[k - 1].op = "productCreate"
                /\ calls[k - 1].dup = calls[k].dup
                /\ Len(calls[k].req.variants) = 1
                /\ calls[k].req.variants[1].price = Val(Duplicates[calls[k].dup].price))
    /\ [][(/\ pc = "awaitCreate"
           /\ pc' \notin {"awaitCreate", "thrown"}
           /\ Len(Val(base).variants) = 0) =>
            IF Truthy(Duplicates[idx + 1].price) /\ Len(Val(lastResp'.product).variants) > 0
            THEN /\ pc' = "awaitBulkUpdate"
                 /\ Len(calls') = Len(calls) + 1
                 /\ calls'[Len(calls')].op = "productVariantsBulkUpdate"
                 /\ calls'[Len(calls')].dup = idx + 1
                 /\ calls'[Len(calls')].req =
                        [productId |-> Val(lastResp'.product).id,
                         variants |-> <<[id |-> Val(lastResp'.product).variants[1],
                                         price |-> Val(Duplicates[idx + 1].price)]>>]
            ELSE /\ pc' = "awaitDelay"
                 /\ calls' = calls]_vars

\* a run on a source without variants returned after sending the override
\* 9.99 for the standalone variant of its product
C14_Witness ==
    /\ pc = "returned"
    /\ Len(Val(base).variants) = 0
    /\ CallsOf("productVariantsBulkCreate") = {}
    /\ \E k \in CallsOf("productVariantsBulkUpdate") :
        calls[k].req.variants = <<[id |-> calls[k].req.productId * 100, price |-> "9.99"]>>

\* a run on a source without variants returned without any price update, no
\* override being asked for
C14_WitnessNoPrice ==
    /\ pc = "returned"
    /\ Len(Val(base).variants) = 0
    /\ ~Truthy(Duplicates[1].price)
    /\ Len(calls) = 2

\* C15: user errors answered to a variant creation or to a price update do not
\* end the run: it goes on to the delay with the product's id kept in the
\* accumulator, the delay leads to the next duplicate's productCreate or to the
\* return of all accumulated ids, and no id ever leaves the accumulator.
C15_VariantErrorsDoNotAbort ==
    /\ [][(/\ answered' # answered
           /\ lastResp'.kind \in {"productVariantsBulkCreate", "productVariantsBulkUpdate"}
           /\ Len(lastResp'.userErrors) > 0) =>
            /\ pc' = "awaitDelay"
            /\ error' = None
            /\ newProductIds' = newProductIds
            /\ newProductIds[Len(newProductIds)] = Val(created).id]_vars
    /\ [][pc = "awaitDelay" =>
            IF idx + 1 < Len(Duplicates)
            THEN /\ pc' = "awaitCreate"
                 /\ calls'[Len(calls')].op = "productCreate"
                 /\ calls'[Len(calls')].dup = idx + 2
            ELSE /\ pc' = "returned"
                 /\ Val(result').productIds = newProductIds]_vars
    /\ [][/\ Len(newProductIds') >= Len(newProductIds)
          /\ \A k \in 1..Len(newProductIds) : newProductIds'[k] = newProductIds[k]]_vars

\* the second duplicate's productCreate is under way after the first one's
\* variant creation came back with user errors
C15_Witness ==
    /\ pc = "awaitCreate"
    /\ idx = 1
    /\ lastResp.kind = "productVariantsBulkCreate"
    /\ Len(lastResp.userErrors) > 0
    /\ Len(newProductIds) = 1

\* a run returned every id although its last price update came back with
\* user errors
C15_WitnessReturned ==
    /\ pc = "returned"
    /\ lastResp.kind = "productVariantsBulkUpdate"
    /\ Len(lastResp.userErrors) > 0
    /\ Len(Val(result).productIds) = Len(Duplicates)
    /\ Len(Duplicates) >= 2

\* the requests of a run that have not been answered yet
InFlight == Len(calls) - answered

\* position of a mutation within one duplicate's steps
StepRank(op) ==
    CASE op = "productCreate" -> 1
      [] op = "productVariantsBulkCreate" -> 2
      [] op = "productVariantsBulkUpdate" -> 3
      [] OTHER -> 0

\* C16: at most one request of a run is unanswered at any time, a request is
\* only sent once every earlier one has been answered, and the requests go out
\* in input order: duplicate by duplicate, and within a duplicate productCreate,
\* then the variant creation, then the price update.
C16_StrictlySequential ==
    /\ [](/\ InFlight \in {0, 1}
          /\ InFlight = 1 <=>
                pc \in {"awaitFetch", "awaitCreate", "awaitBulkCreate", "awaitBulkUpdate"}
          /\ \A a, b \in 1..Len(calls) :
                a < b => \/ calls[a].dup < calls[b].dup
                         \/ /\ calls[a].dup = calls[b].dup
                            /\ StepRank(calls[a].op) < StepRank(calls[b].op)
          /\ \A k \in CallsOf("productCreate") :
                calls[k].dup = Cardinality({j \in CallsOf("productCreate") : j <= k}))
    /\ [][calls' # calls =>
            /\ Len(calls') = Len(calls) + 1
            /\ answered' = Len(calls)
            /\ \A k \in 1..Len(calls) : calls'[k] = calls[k]]_vars

\* the second duplicate's productCreate is the only unanswered request, sent
\* after the first duplicate's creation, variants and price update were answered
C16_Witness ==
    /\ pc = "awaitCreate"
    /\ Len(calls) = 5
    /\ answered = 4
    /\ calls[2].op = "productCreate" /\ calls[2].dup = 1
    /\ calls[3].op = "productVariantsBulkCreate" /\ calls[3].dup = 1
    /\ calls[4].op = "productVariantsBulkUpdate" /\ calls[4].dup = 1
    /\ calls[5].op = "productCreate" /\ calls[5].dup = 2

\* no row holds a local image file
NoLocalFiles == \A i \in 1..Len(rows) : Len(rows[i].imageFiles) = 0

\* C17: a submit of a form without local files asks prepareImageUploads for
\* nothing and sends no upload: uploadImagesIfNeeded hands back the empty
\* mapping and the attempt goes straight to bulkDuplicateProducts.
C17_NoFilesNoUpload ==
    /\ [][(clientPc = "idle" /\ clientPc' # "idle" /\ NoLocalFiles) =>
            /\ stagedByRow' = Some(<<>>)
            /\ prepReq' = None
            /\ uploadsSent' = {}
            /\ clientPc' = "awaitDuplicate"]_vars
    /\ []((clientPc # "idle" /\ NoLocalFiles) =>
            /\ clientPc = "awaitDuplicate"
            /\ stagedByRow = Some(<<>>)
            /\ prepReq = None
            /\ clientTargets = <<>>
            /\ uploadsSent = {})

\* two rows, one with an external URL and none with a file, were submitted
C17_Witness ==
    /\ clientPc = "awaitDuplicate"
    /\ Len(rows) = 2
    /\ NoLocalFiles
    /\ \E i \in 1..Len(rows) : Len(rows[i].imageUrls) > 0
    /\ stagedByRow = Some(<<>>)
    /\ prepReq = None

\* the resource URLs of the files of row i (0-based) in the order the files
\* were submitted to prepareImageUploads and uploaded
RECURSIVE SubmittedUrlsFrom(_, _)
SubmittedUrlsFrom(i, n) ==
    IF n > Len(allFiles) THEN <<>>
    ELSE (IF allFiles[n].i = i THEN <<clientTargets[n].resourceUrl>> ELSE <<>>)
         \o SubmittedUrlsFrom(i, n + 1)

SubmittedUrls(i) == SubmittedUrlsFrom(i, 1)

\* the row's order list shows its files in the order they were added
FilesInAddedOrder(row) ==
    \A a, b \in 0..(Len(row.imageFiles) - 1) :
        a < b => indexOf(row.imageOrder, a) < indexOf(row.imageOrder, b)

\* C18: once every upload has completed, the staged URLs collected for a row
\* whose files keep their added order are in the order the files were
\* submitted, whatever the order in which the uploads completed.
C18_UploadOrderKept ==
    (clientPc = "awaitDuplicate" /\ Len(allFiles) > 0) =>
        \A k \in 1..Len(rows) :
            FilesInAddedOrder(rows[k]) => Val(stagedByRow)[k].urls = SubmittedUrls(k - 1)

\* a number that is a whole number
IsInteger(x) == ~x.nan /\ x.num % x.den = 0

\* C19: whenever the effective quantity is a whole number, there are exactly
\* that many rows, at least one, and a payload under way carries one
\* duplicate per row.
C19_RowsMatchQuantity ==
    /\ Len(rows) >= 1
    /\ IsInteger(qty(quantity)) => NumEq(Num(Len(rows), 1), qty(quantity))
    /\ Has(payload) => Len(Val(payload).duplicates) = Len(rows)

\* a text that reads as a whole number of at least 1
ValidQuantity(text) ==
    /\ IsInteger(Number(text))
    /\ ~NumLess(Number(text), Num(1, 1))

\* C20: the effective quantity is never below 1, and is 1 for every text that
\* does not read as a whole number of at least 1.
C20_InvalidQuantityIsOne ==
    /\ ~NumLess(qty(quantity), Num(1, 1))
    /\ ~ValidQuantity(quantity) => NumEq(qty(quantity), Num(1, 1))

\* C21: the step that ends a submit attempt leaves the selected product, the
\* field selection and the rows as they were and clears isSubmitting, so that
\* whenever no attempt is under way the button is not held busy.
C21_FailedAttemptCanRetry ==
    /\ [][(clientPc # "idle" /\ clientPc' = "idle") =>
            /\ UNCHANGED <<selectedProduct, fields, rows>>
            /\ isSubmitting' = FALSE]_vars
    /\ [](clientPc = "idle" => ~isSubmitting)

\* the staged URLs collected so far, over all rows
RECURSIVE CollectedCount(_)
CollectedCount(perRow) ==
    IF perRow = <<>> THEN 0 ELSE Len(Head(perRow).urls) + CollectedCount(Tail(perRow))

\* C22: bulkDuplicateProducts is invoked by one step of an attempt, with one
\* duplicate per row, either at the click when there is nothing to upload or
\* when the last upload completes with every file's URL collected; the call
\* stays the same until it is answered, no call is under way while staging or
\* uploading, and an attempt that ends leaves no call behind: a new call takes
\* a new press of the button.
C22_DuplicateInvokedOnce ==
    /\ [][(payload' # payload /\ Has(payload')) =>
            /\ ~Has(payload)
            /\ clientPc' = "awaitDuplicate"
            /\ Len(Val(payload').duplicates) = Len(rows)
            /\ pending' = {}
            /\ \/ clientPc = "idle" /\ ~isSubmitting /\ allFiles' = <<>> /\ ~Has(prepReq')
               \/ /\ clientPc = "uploading"
                  /\ Cardinality(pending) = 1
                  /\ uploadsSent = 1..Len(allFiles)
                  /\ CollectedCount(perRowUrls') = Len(allFiles)]_vars
    /\ [][Has(payload) => (payload' = payload \/ (~Has(payload') /\ clientPc' = "idle"))]_vars
    /\ [][(clientPc # "idle" /\ clientPc' = "idle") =>
            ~Has(payload') /\ ~Has(prepReq') /\ uploadsSent' = {} /\ pending' = {}]_vars
    /\ [][(clientPc = "idle" /\ clientPc' # "idle") => (~isSubmitting /\ isSubmitting')]_vars
    /\ [](Has(payload) <=> clientPc = "awaitDuplicate")

\* the payload for two rows went out after both rows' files were uploaded
C22_Witness ==
    /\ clientPc = "awaitDuplicate"
    /\ Len(rows) = 2
    /\ Len(allFiles) = 2
    /\ allFiles[1].i # allFiles[2].i
    /\ Len(Val(payload).duplicates) = 2
    /\ \A k \in 1..2 : Has(Val(payload).duplicates[k].imageUrls)

Terminated == pc \in {"returned", "thrown"}

\* C23: every run ends, either returned with a result after the last
\* duplicate or thrown with an error and no result; the step that throws sends
\* nothing more, an ended run takes no further step, the loop index only moves
\* forward by one and each duplicate gets at most one productCreate.
C23_RunTerminates ==
    /\ <>Terminated
    /\ [](pc = "returned" =>
            /\ Has(result) /\ ~Has(error)
            /\ idx = Len(Duplicates) - 1
            /\ Len(Val(result).productIds) = Len(Duplicates))
    /\ [](pc = "thrown" => Has(error) /\ ~Has(result))
    /\ [][pc' = "thrown" => calls' = calls]_vars
    /\ [][Terminated => UNCHANGED vars]_vars
    /\ [][idx' \in {idx, idx + 1}]_vars
    /\ [](\A a, b \in CallsOf("productCreate") : calls[a].dup = calls[b].dup => a = b)

\* a run of three duplicates has returned
C23_Witness ==
    /\ pc = "returned"
    /\ Len(Duplicates) = MaxDups
    /\ idx = MaxDups - 1
    /\ Has(result)

\* a run has stopped at its second duplicate
C23_WitnessThrown ==
    /\ pc = "thrown"
    /\ idx = 1
    /\ Len(Duplicates) = MaxDups
    /\ Len(newProductIds) = 1

\* C24: the step that receives the created product of a source with V > 0
\* variants sends productVariantsBulkCreate for that product with V inputs in
\* source order, input j carrying source variant j's price and, per selected
\* option, its value with the id of the created option of the same name, or
\* no id when the created product has no option of that name.
C24_VariantInputsMirrorSource ==
    [][(pc = "awaitCreate" /\ pc' # "thrown" /\ Len(Val(base).variants) > 0) =>
        LET c == calls'[Len(calls')]
            bvs == Val(base).variants
            opts == Val(created').options
        IN
        /\ pc' = "awaitBulkCreate"
        /\ Len(calls') = Len(calls) + 1
        /\ c.op = "productVariantsBulkCreate"
        /\ c.dup = idx + 1
        /\ c.req.productId = Val(created').id
        /\ Len(c.req.variants) = Len(bvs)
        /\ \A j \in 1..Len(bvs) :
            /\ c.req.variants[j].price = bvs[j].price
            /\ Len(c.req.variants[j].optionValues) = Len(bvs[j].selectedOptions)
            /\ \A m \in 1..Len(bvs[j].selectedOptions) :
                LET so == bvs[j].selectedOptions[m]
                    ov == c.req.variants[j].optionValues[m]
                    same == {k \in 1..Len(opts) : opts[k].name = so.name}
                IN /\ ov.name = so.value
                   /\ same = {} => ov.optionId = None
                   /\ same # {} => \E k \in same : ov.optionId = Some(opts[k].id)]_vars

\* the variant creation is under way with a value whose option the created
\* product does not have
C24_Witness ==
    /\ pc = "awaitBulkCreate"
    /\ Val(base) = BaseOddOption
    /\ calls[Len(calls)].op = "productVariantsBulkCreate"
    /\ calls[Len(calls)].req.variants[1].optionValues[1].optionId # None
    /\ calls[Len(calls)].req.variants[1].optionValues[2].optionId = None

\* the variant creation is under way with two variants in source order
C24_WitnessTwoVariants ==
    /\ pc = "awaitBulkCreate"
    /\ Val(base) = BaseVariants
    /\ Len(calls[Len(calls)].req.variants) = 2
    /\ calls[Len(calls)].req.variants[2].price = Some("12.00")

\* whether urls lists, in order, the primary image URL, or failing that the
\* preview image URL, of exactly the media entries at the positions in from
\* that have one of the two
ListsUrlsOf(urls, nodes, from) ==
    LET giving == {k \in from : Has(nodes[k].image) \/ Has(nodes[k].preview)}
    IN /\ Len(urls) = Cardinality(giving)
       /\ \A k \in giving :
            urls[Cardinality({j \in giving : j <= k})] =
                IF Has(nodes[k].image) THEN Val(nodes[k].image) ELSE Val(nodes[k].preview)

\* C25: once the source is fetched, baseImageUrls lists, in order, the
\* primary or else the preview image URL of every media entry that has one
\* of the two.
C25_EveryEntryContributes ==
    Has(base) => ListsUrlsOf(baseImageUrls, Val(base).media, 1..Len(Val(base).media))

\* C25 as the code has it: only the media entries of content type IMAGE
\* contribute; baseImageUrls lists, in order, the primary or else the preview
\* image URL of every such entry that has one of the two.
C25_ImageEntriesContribute ==
    Has(base) =>
        ListsUrlsOf(baseImageUrls, Val(base).media,
                    {k \in 1..Len(Val(base).media) : Val(base).media[k].mediaContentType = "IMAGE"})

\* a source with a primary image, a preview-only image, a video with a
\* preview and an image without URLs gave two URLs
C25_Witness ==
    /\ Has(base)
    /\ Len(Val(base).media) = 4
    /\ Val(base).media[3].mediaContentType = "VIDEO"
    /\ Has(Val(base).media[3].preview)
    /\ baseImageUrls = <<"img1", "prev2">>

\* C26: whether a duplicate's tags are an array or a comma-separated string,
\* every tag sent to productCreate has no surrounding white space and no
\* empty tag is sent.
C26_SentTagsAreTrimmed ==
    \A c \in CallsOf("productCreate") :
        LET dup == Duplicates[calls[c].dup]
            sent == calls[c].req.product.tags
        IN dup.tags.kind \in {"array", "string"} =>
            \A k \in 1..Len(sent) : sent[k] # <<>> /\ trim(sent[k]) = sent[k]

\* the productCreate requests sent so far
CreatesSent == Cardinality(CallsOf("productCreate"))

\* C27: one delay of 250 ms separates consecutive duplicates. The step that
\* sends the productCreate of a duplicate after the first is the end of one
\* delay of 250 ms, taken once every request of the duplicate before it was
\* answered; every delay lasts 250 ms; no delay is taken before the first
\* duplicate, nor after the duplicate at which a run aborts.
C27_FixedDelayBetweenDuplicates ==
    /\ [](/\ waitedMs = 250 * delays
          /\ CreatesSent = 0 => delays = 0
          /\ (CreatesSent > 0 /\ pc # "returned") => delays = CreatesSent - 1
          /\ pc = "returned" => delays = CreatesSent)
    /\ [][/\ CreatesSent' > CreatesSent /\ CreatesSent > 0 =>
                /\ pc = "awaitDelay"
                /\ answered = Len(calls)
                /\ CreatesSent' = CreatesSent + 1
                /\ delays' = delays + 1
                /\ waitedMs' = waitedMs + 250
          /\ delays' # delays => pc = "awaitDelay" /\ waitedMs' = waitedMs + 250
          /\ CreatesSent' > CreatesSent /\ CreatesSent = 0 => UNCHANGED <<delays, waitedMs>>
          /\ pc' = "thrown" => UNCHANGED <<delays, waitedMs>>]_vars

\* the third duplicate's productCreate was sent after two delays of 250 ms
C27_Witness ==
    /\ pc = "awaitCreate"
    /\ CreatesSent = 3
    /\ delays = 2
    /\ waitedMs = 500

\* a run that aborted at its second duplicate took the one delay before it
C27_WitnessAborted ==
    /\ pc = "thrown"
    /\ CreatesSent = 2
    /\ delays = 1
    /\ waitedMs = 250

\* the resource URL staged for a file of row i (0-based) in the attempt under way
StagedUrlOf(i, file) ==
    clientTargets[CHOOSE n \in 1..Len(allFiles) :
                    allFiles[n].i = i /\ allFiles[n].file = file].resourceUrl

\* the URLs of a row's images in the order getOrderedImages shows them
ShownUrls(r, i) ==
    LET ordered == getOrderedImages(r) IN
    [k \in 1..Len(ordered) |->
        IF ordered[k].type = "file" THEN StagedUrlOf(i, r.imageFiles[ordered[k].index + 1])
        ELSE r.imageUrls[ordered[k].index + 1]]

\* C28: the imageUrls sent for a row list, position by position, the staged
\* URL of the file or the external URL that getOrderedImages shows at that
\* position, whatever the arrangement and the order the uploads completed in.
C28_SentImagesFollowManualOrder ==
    (Has(payload) /\ "images" \in fields) =>
        \A k \in 1..Len(rows) :
            LET sent == Val(payload).duplicates[k].imageUrls IN
            Coalesce(sent, Some(<<>>)) = Some(ShownUrls(rows[k], k - 1))

\* the order codes of a row's images: 0-based file indices, and -1, -2, ... for URLs
OrderCodes(r) == (0..(Len(r.imageFiles) - 1)) \cup ((0 - Len(r.imageUrls))..(0 - 1))

\* every image of a row, as getOrderedImages names it
ImagesOf(r) ==
    {[type |-> "file", index |-> k] : k \in 0..(Len(r.imageFiles) - 1)}
    \cup {[type |-> "url", index |-> k] : k \in 0..(Len(r.imageUrls) - 1)}

\* C29: every row's imageOrder holds each file index 0..F-1 and each URL code
\* -1..-U exactly once and nothing else, and getOrderedImages returns every
\* image of the row exactly once.
C29_OrderIsPermutation ==
    \A i \in 1..Len(rows) :
        LET r == rows[i]
            order == r.imageOrder
            ordered == getOrderedImages(r)
        IN
        /\ Len(order) = Len(r.imageFiles) + Len(r.imageUrls)
        /\ {order[k] : k \in 1..Len(order)} = OrderCodes(r)
        /\ Len(ordered) = Len(order)
        /\ {ordered[k] : k \in 1..Len(ordered)} = ImagesOf(r)

\* a row left with its second file and its second URL, the URL first, after
\* the first file and the first URL were removed
C29_Witness ==
    \E i \in 1..Len(rows) :
        /\ rows[i].imageOrder = <<0 - 1, 0>>
        /\ Len(rows[i].imageFiles) = 1
        /\ rows[i].imageFiles[1] = File(2)
        /\ rows[i].imageUrls = <<Url(2)>>

\* the variant creation answered with user errors, or without created variants
NothingToPrice(resp) == Len(resp.userErrors) > 0 \/ Len(resp.productVariants) = 0

\* C30: when the variant creation of a duplicate comes back with user errors,
\* or without created variants, no price update is sent for that duplicate,
\* price override or not: the run goes to the delay without an error, and from
\* there to the next duplicate's productCreate or to its return.
C30_NoPriceUpdateAfterFailedVariants ==
    /\ [][(pc = "awaitBulkCreate" /\ answered' # answered /\ NothingToPrice(lastResp')) =>
            /\ calls' = calls
            /\ pc' = "awaitDelay"
            /\ error' = None
            /\ UpdatesOf(idx + 1) = {}]_vars
    /\ [][(/\ pc = "awaitDelay"
           /\ lastResp.kind = "productVariantsBulkCreate"
           /\ NothingToPrice(lastResp)) =>
            /\ UpdatesOf(idx + 1) = {}
            /\ calls' # calls =>
                /\ calls'[Len(calls')].op = "productCreate"
                /\ calls'[Len(calls')].dup = idx + 2
            /\ calls' = calls => pc' = "returned"]_vars
    /\ [](\A k \in CallsOf("productVariantsBulkUpdate") :
            (k < Len(calls) \/ pc # "awaitBulkUpdate") =>
                (k > 1 /\ calls[k - 1].op \in {"productVariantsBulkCreate", "productCreate"}))

\* a duplicate with a price override is at its delay without a price update
\* after its variant creation reported user errors along with its variants
C30_Witness ==
    /\ pc = "awaitDelay"
    /\ lastResp.kind = "productVariantsBulkCreate"
    /\ Len(lastResp.userErrors) > 0
    /\ Len(lastResp.productVariants) > 0
    /\ Truthy(Duplicates[idx + 1].price)
    /\ UpdatesOf(idx + 1) = {}

\* the same after a variant creation without errors and without variants
C30_WitnessNoVariants ==
    /\ pc = "awaitDelay"
    /\ lastResp.kind = "productVariantsBulkCreate"
    /\ Len(lastResp.userErrors) = 0
    /\ Len(lastResp.productVariants) = 0
    /\ Truthy(Duplicates[idx + 1].price)
    /\ UpdatesOf(idx + 1) = {}

====
